---- MODULE Spec2Model ----
(***************************************************************************)
(* Reservation core of tix-go: the hold / confirm / cancel / expire state  *)
(* machine on event_seats (internal/repository/postgres/reservation.go,    *)
(* internal/service/reservation/service.go), the serializable transaction  *)
(* runner with after-commit hooks (postgres/db.go, uow/uow.go), the        *)
(* read-through cache, the idempotency store and the sliding-window rate   *)
(* limiter (internal/repository/redis).                                    *)
(*                                                                         *)
(* Time is counted in whole seconds (milliseconds for the rate limiter).   *)
(* uuid.New() is modelled by fresh counters.  SQL NULL is NULL.            *)
(***************************************************************************)
EXTENDS Integers, Sequences, FiniteSets, TLC

-----------------------------------------------------------------------------
(* Bounds of the model *)

\* number of clock ticks explored
MaxTicks == 1
\* number of holds that may ever be committed (fresh hold ids 1..MaxHolds)
MaxHolds == 2
\* the clock advances in steps of this many seconds
TickSteps == {20}
\* number of lock lifetimes the clock of the idempotency key runs through
MaxLockTicks == 1
\* number of requests that carry the idempotency key
MaxIdemRequests == 3
\* the limiter's parameters (limit, window in milliseconds), scaled down
RLLimit == 1
RLWindowMs == 2
\* the last instant of the limiter's clock, milliseconds
MaxMs == 4
\* number of Allow calls
MaxAllowCalls == 3
\* hooks one transaction body registers at most
MaxHooks == 2
\* messages delivered to one subscription
MaxMsgs == 3

\* the requests served concurrently
Clients == {1, 2}

-----------------------------------------------------------------------------
(* Schema: the rows that exist.  Event 1 has seats 10 and 11.               *)

EventSeatKeys == {<<1, 10>>, <<1, 11>>}
EventIDs == {k[1] : k \in EventSeatKeys}
SeatIDs == {k[2] : k \in EventSeatKeys}

\* SQL NULL of hold_id and hold_expires_at (ids and instants are >= 0)
NULL == -1

\* user_id and total_cents carried by the requests
UserIDs == {7}
TotalCentsVals == {5000}

\* POST /events/{id}/holds requests: the event and seat_ids (binding min=1) ...
HoldRequests ==
    {[eventID |-> 1, seatIDs |-> <<10>>], [eventID |-> 1, seatIDs |-> <<11>>],
     [eventID |-> 1, seatIDs |-> <<10, 11>>]}
\* ... and ttl_sec
TTLSecs == {20}

\* requests whose seat_ids name a seat more than once
DupHoldRequests ==
    {[eventID |-> 1, seatIDs |-> <<10, 10>>], [eventID |-> 1, seatIDs |-> <<11, 10, 11>>]}

\* reservation.Config defaults set by reservation.New
MinHoldTTL == 15
MaxHoldTTL == 300
\* handleCreateHold: AcquireLock(..., 60*time.Second)
LockTTL == 60
\* app: NewIdempotencyStore(rdb, 2*time.Hour)
IdemTTL == 7200
\* app: NewSlidingWindowLimiter(rdb, "rl", 10, 1*time.Minute), in milliseconds
AppWindowMs == 60000
\* handleCreateHold: c.Header("Retry-After", "60") of the 429 response
RateLimitedRetryAfter == 60
\* handleCreateHold: c.Header("Retry-After", "1") of the in-progress 409
InProgressRetryAfter == 1

Range(s) == {s[i] : i \in DOMAIN s}

-----------------------------------------------------------------------------
(* Error values *)

OK == "ok"
\* repository errors (internal/repository/errors.go)
ErrNotFound == "repository: not found"
ErrConflict == "repository: conflict"
ErrSeatsUnavailableRepo == "repository: some seats unavailable"
ErrHoldExpiredRepo == "repository: hold expired"
ErrNothingToConfirm == "repository: nothing to confirm"
\* engine errors that translateDBErr passes through unchanged
ErrSerialization == "pg: 40001 could not serialize access"
ErrDB == "pg: statement failed"
ErrCommit == "commit: failed"
\* a failed Redis command
ErrRedis == "redis: command failed"
\* service errors (internal/service/reservation errors)
ErrSeatsUnavailable == "reservation: some seats are unavailable"
ErrHoldConflict == "reservation: conflict creating hold"
ErrHoldNotFound == "reservation: hold not found"
ErrHoldExpired == "reservation: hold is expired"
\* CreateHold: fmt.Errorf("%s: rate limited, retry in %s", op, retry)
ErrRateLimited == "rate limited, retry in"

-----------------------------------------------------------------------------
(* The durable store *)

VARIABLES
    now,            \* wall clock, seconds
    event_seats,    \* [EventSeatKeys -> [status, hold_id, hold_expires_at]]
    holds,          \* set of rows [id, event_id, user_id, expires_at]
    orders,         \* set of rows [id, event_id, user_id, total_cents]
    tickets,        \* set of rows [id, order_id, event_id, seat_id]
    nextHoldID,     \* uuid.New() for holds
    nextOrderID,    \* uuid.New() for orders
    nextTicketID,   \* uuid.New() for tickets
    req,            \* [Clients -> request record]: the requests being served
    sweep,          \* the expire() sweep in progress
    published,      \* the event ids of the event_changed messages published
    cache,          \* Redis: per event, the cached availability (at most one value)
    invalidated,    \* per event: InvalidateEvent has completed and no loader has run since
    rd,             \* the read-through load (GetOrSetJSON) in progress
    idem,           \* Redis: the value under the idempotency storage key
    hreq,           \* [Clients -> create-hold handler record]
    responses,      \* the responses sent to the requests carrying the idempotency key
    clockMs,        \* wall clock of the limiter, milliseconds
    zset,           \* Redis: the sorted set under the limiter key
    zexp,           \* Redis: the instant at which the limiter key expires
    rl,             \* [Clients -> Allow call record]
    nextMember,     \* randomHex(12) of the next Allow call
    rlLog,          \* the Allow calls that returned (retryAfter NULL: with an error)
    sfc,            \* [Callers -> GetOrSetJSON call record]
    sfcall,         \* singleflight.Group: the caller whose call for the key is in flight
    uw,             \* [Clients -> DoWithOpts call record]
    inval,          \* the hooks whose InvalidateEvent was carried out
    pub,            \* the hooks whose PublishEventChanged was carried out
    cancelled,      \* [Clients -> BOOLEAN]: the request's context is cancelled
    sub,            \* the Subscribe loop and its channel
    cl              \* a service built from some Config, and one hold ttl

storeVars == <<event_seats, holds, orders, tickets>>
idVars == <<nextHoldID, nextOrderID, nextTicketID>>
idemVars == <<idem, hreq, responses>>
rlVars == <<clockMs, zset, zexp, rl, nextMember, rlLog>>
sfVars == <<sfc, sfcall>>
uowVars == <<uw, inval, pub>>
pfVars == <<sub, cl>>
extVars == <<cancelled, pfVars>>
\* what the reservation service itself never touches
auxVars == <<rd, idemVars, rlVars, sfVars, uowVars, extVars>>

AvailableRow == [status |-> "available", hold_id |-> NULL, hold_expires_at |-> NULL]
\* variant: SET status = 'available', hold_id = NULL, hold_expires_at = NULL
SoldRow_Available == AvailableRow
SoldRow == [status |-> "sold", hold_id |-> NULL, hold_expires_at |-> NULL]
\* variant: SET status = 'held', hold_id = $3
HeldRow_NoExpiry(h, exp) == [status |-> "held", hold_id |-> h, hold_expires_at |-> NULL]
HeldRow(h, exp) == [status |-> "held", hold_id |-> h, hold_expires_at |-> exp]

\* the four tables as one value (what a transaction works on)
DBOf(es, hs, os, ts) == [event_seats |-> es, holds |-> hs, orders |-> os, tickets |-> ts]
CurDB == DBOf(event_seats, holds, orders, tickets)

Res(err, db, out) == [err |-> err, db |-> db, out |-> out]

\* hold_expires_at <= now() ; a comparison with NULL is not true
ExpiredAt(row, t) ==
    /\ row.status = "held"
    /\ row.hold_expires_at # NULL
    /\ row.hold_expires_at <= t

\* variant: holdSeatsCore without the reconciling UPDATE
ReconcileExpired_Off(es, eventID, txNow) == es

\* UPDATE event_seats SET status='available', hold_id=NULL, hold_expires_at=NULL
\*   WHERE event_id = $1 AND status = 'held' AND hold_expires_at <= now()
ReconcileExpired(es, eventID, txNow) ==
    [k \in EventSeatKeys |->
        IF k[1] = eventID /\ ExpiredAt(es[k], txNow) THEN AvailableRow ELSE es[k]]

\* rows matched by: WHERE event_id = $1 AND seat_id = ANY($2) AND status = 'available'
HoldMatch(es, eventID, seatIDs) ==
    {k \in EventSeatKeys :
        /\ k[1] = eventID
        /\ k[2] \in Range(seatIDs)
        /\ es[k].status = "available"}

\* statement numbers of holdSeatsCore at which the engine may fail (0: none)
HoldFailPoints == 0..3

\* variant: RowsAffected is not compared with len(seatIDs)
holdSeatsCore_NoCountCheck(db, eventID, userID, seatIDs, ttl, holdID, goNow, txNow, failAt) ==
    LET expires == goNow + ttl
        es1 == ReconcileExpired(db.event_seats, eventID, txNow)
        db1 == [db EXCEPT !.event_seats = es1]
        db2 == [db1 EXCEPT !.holds = @ \cup
                   {[id |-> holdID, event_id |-> eventID, user_id |-> userID,
                     expires_at |-> expires]}]
        hit == HoldMatch(es1, eventID, seatIDs)
        es3 == [k \in EventSeatKeys |-> IF k \in hit THEN HeldRow(holdID, expires) ELSE es1[k]]
        db3 == [db2 EXCEPT !.event_seats = es3]
    IN  Res(OK, db3, holdID)

\* variant: RowsAffected is compared with the number of distinct seat ids
holdSeatsCore_DistinctCount(db, eventID, userID, seatIDs, ttl, holdID, goNow, txNow, failAt) ==
    LET expires == goNow + ttl
        es1 == ReconcileExpired(db.event_seats, eventID, txNow)
        db1 == [db EXCEPT !.event_seats = es1]
        db2 == [db1 EXCEPT !.holds = @ \cup
                   {[id |-> holdID, event_id |-> eventID, user_id |-> userID,
                     expires_at |-> expires]}]
        hit == HoldMatch(es1, eventID, seatIDs)
        es3 == [k \in EventSeatKeys |-> IF k \in hit THEN HeldRow(holdID, expires) ELSE es1[k]]
        db3 == [db2 EXCEPT !.event_seats = es3]
    IN  IF failAt = 1 THEN Res(ErrDB, db, NULL)
        ELSE IF failAt = 2 THEN Res(ErrDB, db1, NULL)
        ELSE IF failAt = 3 THEN Res(ErrDB, db2, NULL)
        ELSE IF Cardinality(hit) # Cardinality(Range(seatIDs))
        THEN Res(ErrSeatsUnavailableRepo, db3, NULL)
        ELSE Res(OK, db3, holdID)

\* holdSeatsCore: reconcile, INSERT INTO holds, UPDATE ... SET status='held',
\* compare RowsAffected with len(seatIDs)
holdSeatsCore(db, eventID, userID, seatIDs, ttl, holdID, goNow, txNow, failAt) ==
    LET expires == goNow + ttl
        es1 == ReconcileExpired(db.event_seats, eventID, txNow)
        db1 == [db EXCEPT !.event_seats = es1]
        db2 == [db1 EXCEPT !.holds = @ \cup
                   {[id |-> holdID, event_id |-> eventID, user_id |-> userID,
                     expires_at |-> expires]}]
        hit == HoldMatch(es1, eventID, seatIDs)
        es3 == [k \in EventSeatKeys |-> IF k \in hit THEN HeldRow(holdID, expires) ELSE es1[k]]
        db3 == [db2 EXCEPT !.event_seats = es3]
    IN  IF failAt = 1 THEN Res(ErrDB, db, NULL)
        ELSE IF failAt = 2 THEN Res(ErrDB, db1, NULL)
        ELSE IF failAt = 3 THEN Res(ErrDB, db2, NULL)
        ELSE IF Cardinality(hit) # Len(seatIDs) THEN Res(ErrSeatsUnavailableRepo, db3, NULL)
        ELSE Res(OK, db3, holdID)

\* variant: WHERE status = 'held'
RowsOfHold_AllHeld(es, holdID) == {k \in EventSeatKeys : es[k].status = "held"}

\* rows matched by: WHERE hold_id = $1
RowsOfHold(es, holdID) == {k \in EventSeatKeys : es[k].hold_id = holdID}

\* variant: SELECT event_id, user_id FROM holds WHERE id = $1
LiveHold_AnyHold(hs, holdID, txNow) == {h \in hs : h.id = holdID}

\* SELECT event_id, user_id FROM holds WHERE id = $1 AND expires_at > now()
LiveHold(hs, holdID, txNow) == {h \in hs : h.id = holdID /\ h.expires_at > txNow}

\* position of seat s among the returned seat ids (RETURNING seat_id)
RankIn(S, s) == Cardinality({t \in S : t < s})

\* variant: the batch loop starts after the first returned seat id
NewTickets_SkipFirst(firstID, orderID, eventID, seatSet) ==
    {[id |-> firstID + RankIn(seatSet, s), order_id |-> orderID,
      event_id |-> eventID, seat_id |-> s] : s \in {t \in seatSet : RankIn(seatSet, t) > 0}}

\* the batch INSERT INTO tickets(id, order_id, event_id, seat_id), one per seat id
NewTickets(firstID, orderID, eventID, seatSet) ==
    {[id |-> firstID + RankIn(seatSet, s), order_id |-> orderID,
      event_id |-> eventID, seat_id |-> s] : s \in seatSet}

\* UNIQUE (event_id, seat_id) on tickets
TicketsUniqueViolation(ts, new) ==
    \E t \in ts \cup new, n \in new :
        t # n /\ t.event_id = n.event_id /\ t.seat_id = n.seat_id

\* statement numbers of confirmHoldCore at which the engine may fail (0: none)
ConfirmFailPoints == 0..5

\* variant: the UPDATE matches the rows of the hold's event whatever their hold
\* and status, and the tickets table has no UNIQUE (event_id, seat_id)
confirmHoldCore_NoGuards(db, holdID, totalCents, txNow, orderID, firstTicketID, failAt) ==
    LET live == LiveHold(db.holds, holdID, txNow)
        h == CHOOSE x \in live : TRUE
        hit == {k \in EventSeatKeys : k[1] = h.event_id}
        seatSet == {k[2] : k \in hit}
        es2 == [k \in EventSeatKeys |-> IF k \in hit THEN SoldRow ELSE db.event_seats[k]]
        new == NewTickets(firstTicketID, orderID, h.event_id, seatSet)
        db5 == [db EXCEPT !.event_seats = es2,
                          !.orders = @ \cup {[id |-> orderID, event_id |-> h.event_id,
                                               user_id |-> h.user_id,
                                               total_cents |-> totalCents]},
                          !.tickets = @ \cup new,
                          !.holds = {x \in @ : x.id # holdID}]
    IN  IF failAt # 0 THEN Res(ErrDB, db, NULL)
        ELSE IF live = {} THEN Res(ErrHoldExpiredRepo, db, NULL)
        ELSE Res(OK, db5, orderID)

\* confirmHoldCore: live hold, UPDATE ... SET status='sold' RETURNING seat_id,
\* INSERT INTO orders, batch INSERT INTO tickets, DELETE FROM holds
confirmHoldCore(db, holdID, totalCents, txNow, orderID, firstTicketID, failAt) ==
    LET live == LiveHold(db.holds, holdID, txNow)
        h == CHOOSE x \in live : TRUE
        hit == RowsOfHold(db.event_seats, holdID)
        seatSet == {k[2] : k \in hit}
        es2 == [k \in EventSeatKeys |-> IF k \in hit THEN SoldRow ELSE db.event_seats[k]]
        db2 == [db EXCEPT !.event_seats = es2]
        db3 == [db2 EXCEPT !.orders = @ \cup
                   {[id |-> orderID, event_id |-> h.event_id, user_id |-> h.user_id,
                     total_cents |-> totalCents]}]
        new == NewTickets(firstTicketID, orderID, h.event_id, seatSet)
        db4 == [db3 EXCEPT !.tickets = @ \cup new]
        db5 == [db4 EXCEPT !.holds = {x \in @ : x.id # holdID}]
    IN  IF failAt = 1 THEN Res(ErrDB, db, NULL)
        ELSE IF live = {} THEN Res(ErrHoldExpiredRepo, db, NULL)
        ELSE IF failAt = 2 THEN Res(ErrDB, db, NULL)
        ELSE IF seatSet = {} THEN Res(ErrNothingToConfirm, db2, NULL)
        ELSE IF failAt = 3 THEN Res(ErrDB, db2, NULL)
        ELSE IF failAt = 4 THEN Res(ErrDB, db3, NULL)
        ELSE IF TicketsUniqueViolation(db3.tickets, new) THEN Res(ErrConflict, db3, NULL)
        \* the error of the DELETE is dropped; the aborted transaction fails to commit
        ELSE IF failAt = 5 THEN Res(ErrCommit, db4, NULL)
        ELSE Res(OK, db5, orderID)

\* statement numbers of cancelHoldCore at which the engine may fail (0: none)
CancelFailPoints == 0..2

\* variant: the DELETE removes no row
cancelHoldCore_KeepHold(db, holdID, failAt) ==
    LET hit == RowsOfHold(db.event_seats, holdID)
        es1 == [k \in EventSeatKeys |-> IF k \in hit THEN AvailableRow ELSE db.event_seats[k]]
        db1 == [db EXCEPT !.event_seats = es1]
        gone == {x \in db.holds : x.id = holdID}
    IN  IF failAt = 1 THEN Res(ErrDB, db, NULL)
        ELSE IF failAt = 2 THEN Res(ErrDB, db1, NULL)
        ELSE IF gone = {} THEN Res(ErrNotFound, db1, NULL)
        ELSE Res(OK, db1, NULL)

\* cancelHoldCore: UPDATE ... SET status='available' WHERE hold_id = $1,
\* DELETE FROM holds WHERE id = $1, no row deleted: not found
cancelHoldCore(db, holdID, failAt) ==
    LET hit == RowsOfHold(db.event_seats, holdID)
        es1 == [k \in EventSeatKeys |-> IF k \in hit THEN AvailableRow ELSE db.event_seats[k]]
        db1 == [db EXCEPT !.event_seats = es1]
        gone == {x \in db.holds : x.id = holdID}
        db2 == [db1 EXCEPT !.holds = @ \ gone]
    IN  IF failAt = 1 THEN Res(ErrDB, db, NULL)
        ELSE IF failAt = 2 THEN Res(ErrDB, db1, NULL)
        ELSE IF gone = {} THEN Res(ErrNotFound, db2, NULL)
        ELSE Res(OK, db2, NULL)

\* variant: the lookup answers the event without reading holds
EventIDByHold_NoLookup(hs, holdID) == CHOOSE e \in EventIDs : TRUE

\* SELECT event_id FROM holds WHERE id = $1
EventIDByHold(hs, holdID) ==
    IF \E h \in hs : h.id = holdID
    THEN (CHOOSE h \in hs : h.id = holdID).event_id
    ELSE NULL


-----------------------------------------------------------------------------
(* Transactions (Store.RunTx, UoW.DoWithOpts) and the reservation service *)

\* Service.clampTTL with the defaults of reservation.New
clampTTL(ttl) ==
    IF ttl < MinHoldTTL THEN MinHoldTTL
    ELSE IF ttl > MaxHoldTTL THEN MaxHoldTTL
    ELSE ttl

\* variant: the writes of a failed body are committed too
RunTx_NoRollback(db, res) == res.db

\* Store.RunTx: the body's error rolls the transaction back (defer tx.Rollback),
\* otherwise its writes are committed
RunTx(db, res) == IF res.err = OK THEN res.db ELSE db

\* CreateHold's translation of the repository error
HoldSvcErr(err) ==
    IF err = ErrSeatsUnavailableRepo THEN ErrSeatsUnavailable
    ELSE IF err = ErrConflict THEN ErrHoldConflict
    ELSE err

\* Confirm's translation of the repository error
ConfirmSvcErr(err) ==
    IF err = ErrConflict THEN ErrHoldConflict
    ELSE IF err = ErrHoldExpiredRepo THEN ErrHoldExpired
    ELSE err

\* Cancel's translation of the repository error
CancelSvcErr(err) ==
    IF err = ErrNotFound THEN ErrHoldNotFound ELSE err

IdleReq ==
    [pc |-> "idle", op |-> "none", eventID |-> NULL, seatIDs |-> <<>>, ttl |-> NULL,
     holdID |-> NULL, txNow |-> NULL, expires |-> NULL, err |-> OK, out |-> NULL]

\* the response of a request (the transaction is over)
DoneReq(op, err) == [IdleReq EXCEPT !.pc = "done", !.op = op, !.err = err]

\* the sequence has no element twice
NoDup(seq) == \A i, j \in DOMAIN seq : seq[i] = seq[j] => i = j

\* a commit that changed rows of event e, or holds of event e, conflicts with every
\* open serializable transaction that has read event e
Touches(db1, db2, e) ==
    \/ \E k \in EventSeatKeys : k[1] = e /\ db1.event_seats[k] # db2.event_seats[k]
    \/ {h \in db1.holds : h.event_id = e} # {h \in db2.holds : h.event_id = e}

\* the requests after the store went from db1 to db2: an open transaction whose
\* snapshot the change invalidates fails with SQLSTATE 40001 (at its next statement
\* or at commit), is rolled back, and its error is returned as it is
Conflicted(rq, db1, db2) ==
    [d \in Clients |->
        IF rq[d].pc = "snap" /\ Touches(db1, db2, rq[d].eventID)
        THEN DoneReq(rq[d].op, ErrSerialization)
        ELSE rq[d]]

\* the instants at which the clock can stand
Instants == {i * d : i \in 0..MaxTicks, d \in TickSteps}

\* BEGIN was sent at some instant txNow up to the present (now() of the
\* transaction's statements is its start time)
BeginInstants == {t \in Instants : t <= now}

\* no response is waiting to be written: writing a response changes nothing
\* but the request's own slot, so it is taken before any other step
NoResponsePending == \A c \in Clients : req[c].pc # "done"

\* a request is served by the lowest idle client
FreeSlot(c) ==
    /\ NoResponsePending
    /\ req[c].pc = "idle"
    /\ \A d \in Clients : d < c => req[d].pc # "idle"

\* CreateHold: seat ids checked, ttl clamped, BeginTx, holdSeatsCore entry
\* (expires := time.Now().Add(ttl)); the first statement takes the snapshot
OpenHold(c) ==
    /\ FreeSlot(c)
    /\ nextHoldID <= MaxHolds
    /\ \E hr \in HoldRequests, ttlSec \in TTLSecs, txNow \in BeginInstants :
          req' = [req EXCEPT ![c] =
                    [IdleReq EXCEPT !.pc = "snap", !.op = "hold", !.eventID = hr.eventID,
                                    !.seatIDs = hr.seatIDs, !.ttl = clampTTL(ttlSec),
                                    !.txNow = txNow, !.expires = now + clampTTL(ttlSec)]]
    /\ UNCHANGED <<now, storeVars, idVars, sweep, published, cache, invalidated, auxVars>>

\* CreateHold with a seat id repeated in the list: len(seatIDs) > 0 is all the
\* service checks, the list goes to holdSeatsCore as it is
OpenHoldDup(c) ==
    /\ FreeSlot(c)
    /\ nextHoldID <= MaxHolds
    /\ \E hr \in DupHoldRequests, ttlSec \in TTLSecs, txNow \in BeginInstants :
          req' = [req EXCEPT ![c] =
                    [IdleReq EXCEPT !.pc = "snap", !.op = "hold", !.eventID = hr.eventID,
                                    !.seatIDs = hr.seatIDs, !.ttl = clampTTL(ttlSec),
                                    !.txNow = txNow, !.expires = now + clampTTL(ttlSec)]]
    /\ UNCHANGED <<now, storeVars, idVars, sweep, published, cache, invalidated, auxVars>>

\* Confirm / Cancel: BeginTx, then EventIDByHold is the first statement; no row:
\* hold not found (no statement of Cancel reads now())
OpenByHold(c, op) ==
    /\ FreeSlot(c)
    /\ \E h \in 1..MaxHolds, txNow \in IF op = "cancel" THEN {now} ELSE BeginInstants :
          LET eid == EventIDByHold(holds, h)
          IN  req' = [req EXCEPT ![c] =
                        IF eid = NULL
                        THEN DoneReq(op, ErrHoldNotFound)
                        ELSE [IdleReq EXCEPT !.pc = "snap", !.op = op, !.holdID = h,
                                             !.eventID = eid, !.txNow = txNow]]
    /\ UNCHANGED <<now, storeVars, idVars, sweep, published, cache, invalidated, auxVars>>

\* Confirm (total_cents > 0)
OpenConfirm(c) == OpenByHold(c, "confirm")

\* Cancel
OpenCancel(c) == OpenByHold(c, "cancel")

\* the outcome of the body and of the commit of client c's transaction
TxOutcome(c, failAt) ==
    LET r == req[c]
    IN  IF r.op = "hold"
        THEN LET x == holdSeatsCore(CurDB, r.eventID, CHOOSE u \in UserIDs : TRUE,
                                    r.seatIDs, r.ttl, nextHoldID, r.expires - r.ttl,
                                    r.txNow, failAt)
             IN  [x EXCEPT !.err = HoldSvcErr(@)]
        ELSE IF r.op = "confirm"
        THEN LET x == confirmHoldCore(CurDB, r.holdID, CHOOSE t \in TotalCentsVals : TRUE,
                                      r.txNow, nextOrderID, nextTicketID, failAt)
             IN  [x EXCEPT !.err = ConfirmSvcErr(@)]
        ELSE LET x == cancelHoldCore(CurDB, r.holdID, failAt)
             IN  [x EXCEPT !.err = CancelSvcErr(@)]

FailPointsOf(op) ==
    IF op = "hold" THEN HoldFailPoints
    ELSE IF op = "confirm" THEN ConfirmFailPoints
    ELSE CancelFailPoints

\* the rest of the body, then commit or rollback; on success the after-commit hook
\* is pending
Finish(c) ==
    /\ NoResponsePending
    /\ req[c].pc = "snap"
    /\ \E failAt \in FailPointsOf(req[c].op) :
          LET res == TxOutcome(c, failAt)
              db2 == RunTx(CurDB, res)
              ok == res.err = OK
              r2 == [IdleReq EXCEPT !.pc = IF ok THEN "hook" ELSE "done",
                                    !.op = req[c].op, !.eventID = req[c].eventID,
                                    !.seatIDs = req[c].seatIDs,
                                    !.err = res.err, !.out = res.out]
          IN  /\ event_seats' = db2.event_seats
              /\ holds' = db2.holds
              /\ orders' = db2.orders
              /\ tickets' = db2.tickets
              /\ nextHoldID' = IF ok /\ req[c].op = "hold" THEN nextHoldID + 1 ELSE nextHoldID
              /\ nextOrderID' = IF ok /\ req[c].op = "confirm" THEN nextOrderID + 1 ELSE nextOrderID
              /\ nextTicketID' = nextTicketID + Cardinality(db2.tickets \ tickets)
              /\ req' = Conflicted([req EXCEPT ![c] = r2], CurDB, db2)
    /\ UNCHANGED <<now, sweep, published, cache, invalidated, auxVars>>

\* Cache.InvalidateEvent: DEL of the summary, availability and seat-map keys of
\* the event (availability is the projection kept here)
InvalidateEvent(ch, eventID) == [ch EXCEPT ![eventID] = {}]

\* the after-commit hook registered by CreateHold / Confirm / Cancel, called
\* with the request's ctx:
\*   _ = cache.InvalidateEvent(ctx, eventID)
\*   _ = pubsub.PublishEventChanged(ctx, eventID)
\* under a cancelled ctx both commands return the ctx error, which is dropped
AfterCommit(c) ==
    /\ NoResponsePending
    /\ req[c].pc = "hook"
    /\ IF cancelled[c]
       THEN UNCHANGED <<cache, invalidated, published>>
       ELSE /\ cache' = InvalidateEvent(cache, req[c].eventID)
            /\ invalidated' = [invalidated EXCEPT ![req[c].eventID] = TRUE]
            /\ published' = published \cup {req[c].eventID}
    /\ req' = [req EXCEPT ![c].pc = "done"]
    /\ UNCHANGED <<now, storeVars, idVars, sweep, auxVars>>

\* the hook during which the request is cancelled, after InvalidateEvent and
\* before PublishEventChanged
AfterCommitCut(c) ==
    /\ NoResponsePending
    /\ req[c].pc = "hook"
    /\ ~cancelled[c]
    /\ cache' = InvalidateEvent(cache, req[c].eventID)
    /\ invalidated' = [invalidated EXCEPT ![req[c].eventID] = TRUE]
    /\ cancelled' = [cancelled EXCEPT ![c] = TRUE]
    /\ req' = [req EXCEPT ![c].pc = "done"]
    /\ UNCHANGED <<now, storeVars, idVars, sweep, published, rd, idemVars, rlVars, sfVars,
                   uowVars, pfVars>>

\* the client of a request whose transaction is committed goes away before
\* the hook is called: c.Request.Context() is cancelled
RequestCancel(c) ==
    /\ NoResponsePending
    /\ req[c].pc = "hook"
    /\ ~cancelled[c]
    /\ cancelled' = [cancelled EXCEPT ![c] = TRUE]
    /\ UNCHANGED <<now, storeVars, idVars, req, sweep, published, cache, invalidated, rd,
                   idemVars, rlVars, sfVars, uowVars, pfVars>>

\* the caller has the result; the client is free for its next request
Return(c) ==
    /\ req[c].pc = "done"
    /\ req' = [req EXCEPT ![c] = IdleReq]
    /\ cancelled' = [cancelled EXCEPT ![c] = FALSE]
    /\ UNCHANGED <<now, storeVars, idVars, sweep, published, cache, invalidated, rd, idemVars,
                   rlVars, sfVars, uowVars, pfVars>>

-----------------------------------------------------------------------------
(* ExpireHolds: two statements outside any transaction *)

IdleSweep == [pc |-> "idle", released |-> 0]

\* variant: WHERE status = 'held'
ExpiredRows_AllHeld(es, t) ==
    {k \in EventSeatKeys : es[k].status = "held"}

\* variant: hold_expires_at < now()
ExpiredRows_Strict(es, t) ==
    {k \in EventSeatKeys : es[k].status = "held" /\ es[k].hold_expires_at < t}

\* variant: one expired row at a time (LIMIT 1)
ExpiredRows_One(es, t) ==
    LET S == {k \in EventSeatKeys : ExpiredAt(es[k], t)}
    IN  IF S = {} THEN {} ELSE {CHOOSE k \in S : TRUE}

\* rows matched by: WHERE status = 'held' AND hold_expires_at <= now()
ExpiredRows(es, t) == {k \in EventSeatKeys : ExpiredAt(es[k], t)}

\* UPDATE event_seats SET status='available', hold_id=NULL, hold_expires_at=NULL
\*   WHERE status = 'held' AND hold_expires_at <= now() ; released += RowsAffected
ExpireUpdate ==
    /\ NoResponsePending
    /\ sweep.pc = "idle"
    /\ LET hit == ExpiredRows(event_seats, now)
           es2 == [k \in EventSeatKeys |-> IF k \in hit THEN AvailableRow ELSE event_seats[k]]
       IN  /\ event_seats' = es2
           /\ sweep' = [pc |-> "delete", released |-> Cardinality(hit)]
           /\ req' = Conflicted(req, CurDB, DBOf(es2, holds, orders, tickets))
    /\ UNCHANGED <<now, holds, orders, tickets, idVars, published, cache, invalidated, auxVars>>

\* variant: the sweep ends after its UPDATE
ExpireDelete_None ==
    /\ NoResponsePending
    /\ sweep.pc = "delete"
    /\ sweep' = IdleSweep
    /\ UNCHANGED <<now, storeVars, idVars, req, published, cache, invalidated, auxVars>>

\* variant: DELETE FROM holds
ExpireDelete_All ==
    /\ NoResponsePending
    /\ sweep.pc = "delete"
    /\ holds' = {}
    /\ sweep' = IdleSweep
    /\ req' = Conflicted(req, CurDB, DBOf(event_seats, {}, orders, tickets))
    /\ UNCHANGED <<now, event_seats, orders, tickets, idVars, published, cache, invalidated, auxVars>>

\* variant: the sweep ends with the after-commit hook of a mutation
ExpireDelete_Hook ==
    /\ NoResponsePending
    /\ sweep.pc = "delete"
    /\ LET hs2 == {h \in holds : ~(h.expires_at <= now)}
       IN  /\ holds' = hs2
           /\ sweep' = IdleSweep
           /\ req' = Conflicted(req, CurDB, DBOf(event_seats, hs2, orders, tickets))
    /\ cache' = [e \in EventIDs |-> {}]
    /\ published' = published \cup EventIDs
    /\ UNCHANGED <<now, event_seats, orders, tickets, idVars, invalidated, auxVars>>

\* DELETE FROM holds WHERE expires_at <= now() ; Expire returns sweep.released
ExpireDelete ==
    /\ NoResponsePending
    /\ sweep.pc = "delete"
    /\ LET hs2 == {h \in holds : ~(h.expires_at <= now)}
       IN  /\ holds' = hs2
           /\ sweep' = IdleSweep
           /\ req' = Conflicted(req, CurDB, DBOf(event_seats, hs2, orders, tickets))
    /\ UNCHANGED <<now, event_seats, orders, tickets, idVars, published, cache, invalidated, auxVars>>

\* time passes
Tick ==
    /\ NoResponsePending
    /\ \E d \in TickSteps :
          /\ now + d <= MaxTicks * d
          /\ now' = now + d
    /\ UNCHANGED <<storeVars, idVars, req, sweep, published, cache, invalidated, auxVars>>

-----------------------------------------------------------------------------
(* Read-through cache: query.Service.CountsByStatus over GetOrSetJSON *)

\* QueryRepo.CountsByStatus: SELECT SUM(CASE WHEN status = ...) FROM event_seats
\*   WHERE event_id = $1 ; Total is the sum of the three
CountsByStatus(es, eventID) ==
    LET n(st) == Cardinality({k \in EventSeatKeys : k[1] = eventID /\ es[k].status = st})
    IN  [available |-> n("available"), held |-> n("held"), sold |-> n("sold"),
         total |-> n("available") + n("held") + n("sold")]

IdleRead == [pc |-> "idle", eventID |-> NULL, val |-> {}]

\* GetOrSetJSON, first GetJSON: a hit is returned, a miss enters the single flight
CacheGet ==
    /\ rd.pc = "idle"
    /\ \E e \in EventIDs :
          rd' = IF cache[e] # {} THEN rd ELSE [pc |-> "flight", eventID |-> e, val |-> {}]
    /\ UNCHANGED <<now, storeVars, idVars, req, sweep, published, cache, invalidated, idemVars, rlVars, sfVars, uowVars, extVars>>

\* inside sf.Do, second GetJSON: a hit is returned, a miss calls the loader
FlightGet ==
    /\ rd.pc = "flight"
    /\ rd' = IF cache[rd.eventID] # {} THEN IdleRead ELSE [rd EXCEPT !.pc = "load"]
    /\ UNCHANGED <<now, storeVars, idVars, req, sweep, published, cache, invalidated, idemVars, rlVars, sfVars, uowVars, extVars>>

\* the loader: store.Query().CountsByStatus (autocommit read of the committed
\* rows); its error ends the call
Load ==
    /\ rd.pc = "load"
    /\ \E ok \in BOOLEAN :
          rd' = IF ok
                THEN [rd EXCEPT !.pc = "set",
                                !.val = {CountsByStatus(event_seats, rd.eventID)}]
                ELSE IdleRead
    /\ invalidated' = [invalidated EXCEPT ![rd.eventID] = FALSE]
    /\ UNCHANGED <<now, storeVars, idVars, req, sweep, published, cache, idemVars, rlVars, sfVars, uowVars, extVars>>

\* _ = SetJSON(ctx, c, key, v3, ttl): the loaded value is written, or the write
\* fails and the error is dropped; the value is returned
CacheSet ==
    /\ rd.pc = "set"
    /\ \E ok \in BOOLEAN :
          cache' = IF ok THEN [cache EXCEPT ![rd.eventID] = rd.val] ELSE cache
    /\ rd' = IdleRead
    /\ UNCHANGED <<now, storeVars, idVars, req, sweep, published, invalidated, idemVars, rlVars, sfVars, uowVars, extVars>>

\* Config.AvailabilityTTL after query.New, seconds
AvailabilityTTL == 15

\* variant: the key is stored without expiry
Expiring_Never(ttl) == FALSE

\* Cache.SetString, rdb.Set(ctx, key, val, ttl): the key expires when ttl > 0
Expiring(ttl) == ttl > 0

\* the TTL of the entry of event e has run out on the Redis server (whose clock
\* is not the store's now()): the entry is gone
CacheExpire(e) ==
    /\ cache[e] # {}
    /\ Expiring(AvailabilityTTL)
    /\ cache' = [cache EXCEPT ![e] = {}]
    /\ UNCHANGED <<now, storeVars, idVars, req, sweep, published, invalidated, rd,
                   idemVars, rlVars, sfVars, uowVars, extVars>>

-----------------------------------------------------------------------------
(* The script of the sliding-window limiter *)

\* the lowest score of a non-empty sorted set (ZRANGE key 0 0 WITHSCORES)
EarliestScore(z) == CHOOSE x \in {e.score : e \in z} : \A e \in z : x <= e.score

\* variant: the hits are counted before the current one is added
luaSlidingWindow_CountBeforeAdd(z, nowArg, window, limit, member) ==
    LET z1 == {e \in z : ~(0 <= e.score /\ e.score <= nowArg - window)}
        z2 == IF \E e \in z1 : e.member = member
              THEN z1
              ELSE z1 \cup {[score |-> nowArg, member |-> member]}
        count == Cardinality(z1)
    IN  [zset |-> z2, allowed |-> ~(count > limit), count |-> count, retry_ms |-> 0]

\* luaSlidingWindow: ZREMRANGEBYSCORE key 0 now-window, ZADD key NX now member,
\* ZCARD key, PEXPIRE key window; count > limit: {0, count, retry_ms}, else
\* {1, count, 0}
luaSlidingWindow(z, nowArg, window, limit, member) ==
    LET z1 == {e \in z : ~(0 <= e.score /\ e.score <= nowArg - window)}
        z2 == IF \E e \in z1 : e.member = member
              THEN z1
              ELSE z1 \cup {[score |-> nowArg, member |-> member]}
        count == Cardinality(z2)
        r == window - (nowArg - EarliestScore(z2))
    IN  IF count > limit
        THEN [zset |-> z2, allowed |-> FALSE, count |-> count,
              retry_ms |-> IF r < 0 THEN 0 ELSE r]
        ELSE [zset |-> z2, allowed |-> TRUE, count |-> count, retry_ms |-> 0]

-----------------------------------------------------------------------------
(* Idempotent create-hold: handleCreateHold over IdempotencyStore *)

\* owner is not stored in Redis (the value of a lock is the literal "LOCK"): it
\* records the request whose SETNX wrote the lock
NoKey == [val |-> "none", payload |-> NULL, exp |-> 0, owner |-> NULL]
\* locked: what AcquireLock returned to this request; retry: the duration in
\* the text of the rate-limited error, milliseconds
IdleHandler ==
    [pc |-> "idle", seatIDs |-> <<>>, locked |-> FALSE, holdID |-> NULL, err |-> OK,
     retry |-> NULL]

\* isRateLimitedErr: the text of the error contains "rate limited"
isRateLimitedErr(err) == err = ErrRateLimited

\* respondErr: the status written for an error of the reservation service; no
\* case matches any other error, nothing is written and the response goes out
\* with the default status 200 and no body
respondErr(err) ==
    IF err \in {ErrHoldConflict, ErrHoldExpired, ErrSeatsUnavailable} THEN 409
    ELSE IF err = ErrHoldNotFound THEN 404
    ELSE 200

\* what Redis holds under the key at instant t (a key is gone once its TTL is over)
LiveKey(k, t) == IF k.val # "none" /\ t < k.exp THEN k ELSE NoKey

\* variant: every read misses
GetResult_Miss(k, t) == [ok |-> FALSE, payload |-> NULL]

\* IdempotencyStore.GetResult: the payload of a value with the RES: prefix
GetResult(k, t) ==
    IF LiveKey(k, t).val = "RES"
    THEN [ok |-> TRUE, payload |-> k.payload]
    ELSE [ok |-> FALSE, payload |-> NULL]

\* variant: SET in place of SETNX
AcquireLock_Set(k, t, lockTTL) ==
    [locked |-> TRUE, key |-> [val |-> "LOCK", payload |-> NULL, exp |-> t + lockTTL, owner |-> NULL]]

\* IdempotencyStore.AcquireLock: SETNX key "LOCK" with the lock TTL
AcquireLock(k, t, lockTTL) ==
    IF LiveKey(k, t).val = "none"
    THEN [locked |-> TRUE, key |-> [val |-> "LOCK", payload |-> NULL, exp |-> t + lockTTL, owner |-> NULL]]
    ELSE [locked |-> FALSE, key |-> k]

\* IdempotencyStore.SaveResult: SET key "RES:" + payload with the store's TTL
SaveResult(k, t, payload) ==
    [val |-> "RES", payload |-> payload, exp |-> t + IdemTTL, owner |-> NULL]

\* variant: the key is kept
Release_Keep(k) == k

\* IdempotencyStore.Release: DEL key
Release(k) == NoKey

\* c.Header("Retry-After", ...) and c.JSON: the status, the body (for 201
\* {"hold_id": ...}, for 429 the error text with the limiter's retry duration)
\* and the Retry-After header in seconds
RespondRetry(status, body, retryAfter) ==
    Append(responses, [status |-> status, body |-> body, retryAfter |-> retryAfter])

\* c.Data / c.JSON with no Retry-After header
Respond(status, body) == RespondRetry(status, body, NULL)

idemRest == <<orders, tickets, nextOrderID, nextTicketID, req, sweep, rd, sfVars, uowVars, extVars>>

idemOthers ==
    <<orders, tickets, nextOrderID, nextTicketID, req, sweep, rd, rlVars, sfVars, uowVars, extVars>>

\* a request with the Idempotency-Key arrives; first GetResult: a stored result
\* is replayed with 201
HandlerGet(c) ==
    /\ hreq[c].pc = "idle"
    /\ \A d \in Clients : d < c => hreq[d].pc # "idle"
    /\ Len(responses) + Cardinality({d \in Clients : hreq[d].pc # "idle"}) < MaxIdemRequests
    /\ \E hr \in HoldRequests :
          LET g == GetResult(idem, now)
          IN  IF g.ok
              THEN /\ responses' = Respond(201, g.payload)
                   /\ hreq' = hreq
              ELSE /\ hreq' = [hreq EXCEPT ![c] = [IdleHandler EXCEPT !.pc = "lock",
                                                                      !.seatIDs = hr.seatIDs]]
                   /\ responses' = responses
    /\ UNCHANGED <<now, event_seats, holds, nextHoldID, published, cache, invalidated, idem, idemOthers>>

\* AcquireLock; its error is answered by respondErr
HandlerLock(c) ==
    /\ hreq[c].pc = "lock"
    /\ \/ LET a == AcquireLock(idem, now, LockTTL)
          IN  /\ idem' = IF a.locked THEN [a.key EXCEPT !.owner = c] ELSE a.key
              /\ hreq' = [hreq EXCEPT ![c].pc = IF a.locked THEN "create" ELSE "reget",
                                       ![c].locked = a.locked]
              /\ responses' = responses
       \/ /\ responses' = Respond(respondErr(ErrRedis), NULL)
          /\ hreq' = [hreq EXCEPT ![c] = IdleHandler]
          /\ idem' = idem
    /\ UNCHANGED <<now, event_seats, holds, nextHoldID, published, cache, invalidated, idemOthers>>

\* the lock is taken: second GetResult, then 201 with the stored result or
\* 409 "idempotency key in progress"
HandlerReget(c) ==
    /\ hreq[c].pc = "reget"
    /\ LET g == GetResult(idem, now)
       IN  responses' = IF g.ok
                        THEN Respond(201, g.payload)
                        ELSE RespondRetry(409, NULL, InProgressRetryAfter)
    /\ hreq' = [hreq EXCEPT ![c] = IdleHandler]
    /\ UNCHANGED <<now, event_seats, holds, nextHoldID, published, cache, invalidated, idem, idemOthers>>

\* svcs.Reservation.CreateHold: limiter.Allow on the caller's key (its error
\* and its denial end the call before any transaction), then the transaction
\* of holdSeatsCore and, after its commit, the hook
HandlerCreate(c) ==
    /\ hreq[c].pc = "create"
    /\ nextHoldID <= MaxHolds
    /\ nextMember <= MaxAllowCalls
    /\ \/ /\ hreq' = [hreq EXCEPT ![c].pc = "release", ![c].err = ErrRedis]
          /\ UNCHANGED <<event_seats, holds, nextHoldID, cache, invalidated, published,
                         zset, zexp, nextMember>>
       \/ LET nowMs == now * 1000
              live == IF nowMs < zexp THEN zset ELSE {}
              a == luaSlidingWindow(live, nowMs, AppWindowMs, RLLimit, nextMember)
          IN  /\ zset' = a.zset
              /\ zexp' = nowMs + AppWindowMs
              /\ nextMember' = nextMember + 1
              /\ IF ~a.allowed
                 THEN /\ hreq' = [hreq EXCEPT ![c].pc = "release",
                                              ![c].err = ErrRateLimited,
                                              ![c].retry = a.retry_ms]
                      /\ UNCHANGED <<event_seats, holds, nextHoldID, cache, invalidated,
                                     published>>
                 ELSE \E e \in EventIDs, ttlSec \in TTLSecs, failAt \in HoldFailPoints :
                        LET x == holdSeatsCore(CurDB, e, CHOOSE u \in UserIDs : TRUE,
                                               hreq[c].seatIDs, clampTTL(ttlSec),
                                               nextHoldID, now, now, failAt)
                            db2 == RunTx(CurDB, x)
                            ok == x.err = OK
                        IN  /\ event_seats' = db2.event_seats
                            /\ holds' = db2.holds
                            /\ nextHoldID' = IF ok THEN nextHoldID + 1 ELSE nextHoldID
                            /\ cache' = IF ok THEN InvalidateEvent(cache, e) ELSE cache
                            /\ invalidated' = IF ok
                                              THEN [invalidated EXCEPT ![e] = TRUE]
                                              ELSE invalidated
                            /\ published' = IF ok THEN published \cup {e} ELSE published
                            /\ hreq' = [hreq EXCEPT
                                           ![c].pc = IF ok THEN "save" ELSE "release",
                                           ![c].holdID = x.out,
                                           ![c].err = HoldSvcErr(x.err)]
    /\ UNCHANGED <<now, idem, responses, idemRest, clockMs, rl, rlLog>>

\* CreateHold failed: _ = idem.Release, then the error response
HandlerRelease(c) ==
    /\ hreq[c].pc = "release"
    /\ \E ok \in BOOLEAN : idem' = IF ok THEN Release(idem) ELSE idem
    /\ responses' = IF isRateLimitedErr(hreq[c].err)
                    THEN RespondRetry(429, hreq[c].retry, RateLimitedRetryAfter)
                    ELSE Respond(respondErr(hreq[c].err), NULL)
    /\ hreq' = [hreq EXCEPT ![c] = IdleHandler]
    /\ UNCHANGED <<now, event_seats, holds, nextHoldID, published, cache, invalidated, idemOthers>>

\* CreateHold succeeded: _ = idem.SaveResult (its error is dropped), then 201
\* with the new hold id
HandlerSave(c) ==
    /\ hreq[c].pc = "save"
    /\ \E ok \in BOOLEAN :
          idem' = IF ok THEN SaveResult(idem, now, hreq[c].holdID) ELSE idem
    /\ responses' = Respond(201, hreq[c].holdID)
    /\ hreq' = [hreq EXCEPT ![c] = IdleHandler]
    /\ UNCHANGED <<now, event_seats, holds, nextHoldID, published, cache, invalidated, idemOthers>>

\* time passes, half a lock lifetime at a time
TickLock ==
    /\ now + LockTTL \div 2 <= MaxLockTicks * LockTTL
    /\ now' = now + LockTTL \div 2
    /\ UNCHANGED <<event_seats, holds, nextHoldID, published, cache, invalidated, idem, hreq,
                   responses, idemOthers>>

-----------------------------------------------------------------------------
(* Sliding-window limiter: SlidingWindowLimiter.Allow over luaSlidingWindow *)

IdleAllow == [pc |-> "idle", nowMs |-> 0, member |-> 0]

rlOthers ==
    <<now, storeVars, idVars, req, sweep, published, cache, invalidated, rd, idemVars,
      sfVars, uowVars, extVars>>

\* Allow: nowMs := time.Now() in milliseconds, member := randomHex(12)
AllowStart(c) ==
    /\ rl[c].pc = "idle"
    /\ \A d \in Clients : d < c => rl[d].pc # "idle"
    /\ nextMember <= MaxAllowCalls
    /\ rl' = [rl EXCEPT ![c] = [pc |-> "script", nowMs |-> clockMs, member |-> nextMember]]
    /\ nextMember' = nextMember + 1
    /\ UNCHANGED <<clockMs, zset, zexp, rlLog, rlOthers>>

\* Allow: script.Run executes in Redis (the key is gone once its PEXPIRE time is
\* over) and the reply is decoded; an error of the run returns allowed = false
AllowScript(c) ==
    /\ rl[c].pc = "script"
    /\ \/ LET live == IF clockMs < zexp THEN zset ELSE {}
              r == luaSlidingWindow(live, rl[c].nowMs, RLWindowMs, RLLimit, rl[c].member)
          IN  /\ zset' = r.zset
              /\ zexp' = clockMs + RLWindowMs
              /\ rlLog' = rlLog \cup {[start |-> rl[c].nowMs, end |-> clockMs,
                                        member |-> rl[c].member, allowed |-> r.allowed,
                                        retryAfter |-> r.retry_ms]}
       \/ /\ rlLog' = rlLog \cup {[start |-> rl[c].nowMs, end |-> clockMs,
                                     member |-> rl[c].member, allowed |-> FALSE,
                                     retryAfter |-> NULL]}
          /\ UNCHANGED <<zset, zexp>>
    /\ rl' = [rl EXCEPT ![c] = IdleAllow]
    /\ UNCHANGED <<clockMs, nextMember, rlOthers>>

\* a millisecond passes
TickMs ==
    /\ clockMs < MaxMs
    /\ clockMs' = clockMs + 1
    /\ UNCHANGED <<zset, zexp, rl, nextMember, rlLog, rlOthers>>

-----------------------------------------------------------------------------

(* Single flight: GetOrSetJSON of one key called by several goroutines *)

Callers == {1, 2, 3}

\* the event whose availability key the callers read
SfEvent == CHOOSE e \in EventIDs : TRUE

\* val: the value returned (none on an error); err: the error returned
IdleCaller == [pc |-> "idle", val |-> {}, err |-> OK]

\* variant: no call is ever found in flight
InFlight_Never(call) == FALSE

\* singleflight.Group.Do: a call for the key is in the group's map
InFlight(call) == call # NULL

\* the call of the leader ends with (val, err): the leader and every goroutine
\* waiting on the call return that pair
Deliver(s, leader, val, err) ==
    [c \in Callers |->
        IF c = leader \/ s[c].pc = "wait"
        THEN [pc |-> "done", val |-> val, err |-> err]
        ELSE s[c]]

sfOthers ==
    <<now, storeVars, idVars, req, sweep, published, invalidated, rd, idemVars, rlVars,
      uowVars, extVars>>

\* GetOrSetJSON, first GetJSON: a hit is returned, a miss goes on to sf.Do
SfGet(c) ==
    /\ sfc[c].pc = "idle"
    /\ sfc' = [sfc EXCEPT ![c] = IF cache[SfEvent] # {}
                                 THEN [pc |-> "done", val |-> cache[SfEvent], err |-> OK]
                                 ELSE [@ EXCEPT !.pc = "do"]]
    /\ UNCHANGED <<cache, sfcall, sfOthers>>

\* c.sf.Do(key, fn): with a call in flight the caller waits for it, otherwise
\* the caller's fn becomes the call in flight
SfDo(c) ==
    /\ sfc[c].pc = "do"
    /\ IF InFlight(sfcall)
       THEN /\ sfc' = [sfc EXCEPT ![c].pc = "wait"]
            /\ sfcall' = sfcall
       ELSE /\ sfc' = [sfc EXCEPT ![c].pc = "fn"]
            /\ sfcall' = c
    /\ UNCHANGED <<cache, sfOthers>>

\* inside fn, second GetJSON: a hit ends the call with the cached value, a
\* miss calls the loader
SfFnGet(c) ==
    /\ sfc[c].pc = "fn"
    /\ IF cache[SfEvent] # {}
       THEN /\ sfc' = Deliver(sfc, c, cache[SfEvent], OK)
            /\ sfcall' = NULL
       ELSE /\ sfc' = [sfc EXCEPT ![c].pc = "load"]
            /\ sfcall' = sfcall
    /\ UNCHANGED <<cache, sfOthers>>

\* the loader (CountsByStatus over the committed rows): its error ends the
\* call, SetJSON is not reached
SfLoad(c) ==
    /\ sfc[c].pc = "load"
    /\ \E ok \in BOOLEAN :
          IF ok
          THEN /\ sfc' = [sfc EXCEPT ![c].pc = "set",
                                     ![c].val = {CountsByStatus(event_seats, SfEvent)}]
               /\ sfcall' = sfcall
          ELSE /\ sfc' = Deliver(sfc, c, {}, ErrDB)
               /\ sfcall' = NULL
    /\ UNCHANGED <<cache, sfOthers>>

\* _ = SetJSON(ctx, c, key, v3, ttl), its error dropped; the call ends with
\* the loaded value
SfSet(c) ==
    /\ sfc[c].pc = "set"
    /\ \E ok \in BOOLEAN :
          cache' = IF ok THEN [cache EXCEPT ![SfEvent] = sfc[c].val] ELSE cache
    /\ sfc' = Deliver(sfc, c, sfc[c].val, OK)
    /\ sfcall' = NULL
    /\ UNCHANGED sfOthers

-----------------------------------------------------------------------------
(* Unit of work: UoW.DoWithOpts over Store.RunTx, with after-commit hooks *)

\* the hooks a transaction body may register
HookIDs == 1..MaxHooks

\* hooks: the slice of registered hooks; ran: the hooks called so far;
\* ctxDone: the caller's request context is cancelled, and cancelAt: before
\* or after the commit, or inside a hook; committed: tx.Commit returned nil; err:
\* what RunTx, then DoWithOpts, returns
IdleDo ==
    [pc |-> "idle", hooks |-> <<>>, ran |-> <<>>, ctxDone |-> FALSE, cancelAt |-> "none",
     committed |-> FALSE, err |-> OK]

\* variant: the hooks are called whatever RunTx returned
RunsHooks_Always(err) == TRUE

\* DoWithOpts: if err != nil { return err } ; for _, h := range hooks { h(ctx) }
RunsHooks(err) == err = OK

\* h(ctx): the hooks are called with the ctx DoWithOpts was called with
HookCtxDone(ctxDone) == ctxDone

uwOthers ==
    <<now, storeVars, idVars, req, sweep, published, cache, invalidated, rd, idemVars,
      rlVars, sfVars, extVars>>

\* DoWithOpts calls RunTx: BeginTx fails, or fn is entered
DoWithOpts(c) ==
    /\ uw[c].pc = "idle"
    /\ \A d \in Clients : d < c => uw[d].pc # "idle"
    /\ \E ok \in BOOLEAN :
          uw' = [uw EXCEPT ![c].pc = IF ok THEN "body" ELSE "rtx",
                           ![c].err = IF ok THEN OK ELSE ErrDB]
    /\ UNCHANGED <<inval, pub, uwOthers>>

\* inside fn: after(h) appends h to hooks
After(c) ==
    /\ uw[c].pc = "body"
    /\ Len(uw[c].hooks) < MaxHooks
    /\ \E h \in HookIDs : uw' = [uw EXCEPT ![c].hooks = Append(@, h)]
    /\ UNCHANGED <<inval, pub, uwOthers>>

\* fn returns: an error ends RunTx (deferred Rollback), nil goes on to Commit
BodyReturn(c) ==
    /\ uw[c].pc = "body"
    /\ \E ok \in BOOLEAN :
          uw' = [uw EXCEPT ![c].pc = IF ok THEN "commit" ELSE "rtx",
                           ![c].err = IF ok THEN OK ELSE ErrDB]
    /\ UNCHANGED <<inval, pub, uwOthers>>

\* tx.Commit: nil, or an error that RunTx wraps and returns
TxCommit(c) ==
    /\ uw[c].pc = "commit"
    /\ \E ok \in BOOLEAN :
          uw' = [uw EXCEPT ![c].pc = "rtx",
                           ![c].committed = ok,
                           ![c].err = IF ok THEN OK ELSE ErrCommit]
    /\ UNCHANGED <<inval, pub, uwOthers>>

\* RunTx has returned: DoWithOpts returns its error, or starts on the hooks
RunTxReturn(c) ==
    /\ uw[c].pc = "rtx"
    /\ uw' = [uw EXCEPT ![c].pc = IF RunsHooks(uw[c].err) THEN "hooks" ELSE "ret"]
    /\ UNCHANGED <<inval, pub, uwOthers>>

\* the next hook is called. The hook of the reservation service is
\*   _ = cache.InvalidateEvent(ctx, id) ; _ = pubsub.PublishEventChanged(ctx, id)
\* a Redis command under a cancelled ctx returns the ctx error without being
\* sent; the request may also be cancelled between the two commands
RunHook(c) ==
    /\ uw[c].pc = "hooks"
    /\ Len(uw[c].ran) < Len(uw[c].hooks)
    /\ LET i == Len(uw[c].ran) + 1
           called == [uw EXCEPT ![c].ran = Append(@, uw[c].hooks[i])]
       IN  IF HookCtxDone(uw[c].ctxDone)
           THEN /\ uw' = called
                /\ UNCHANGED <<inval, pub>>
           ELSE \/ /\ uw' = called
                   /\ inval' = inval \cup {<<c, i>>}
                   /\ pub' = pub \cup {<<c, i>>}
                \/ /\ uw' = [called EXCEPT ![c].ctxDone = TRUE, ![c].cancelAt = "hook"]
                   /\ inval' = inval \cup {<<c, i>>}
                   /\ pub' = pub
    /\ UNCHANGED uwOthers

\* every hook was called: DoWithOpts returns nil
DoReturn(c) ==
    /\ uw[c].pc = "hooks"
    /\ Len(uw[c].ran) = Len(uw[c].hooks)
    /\ uw' = [uw EXCEPT ![c].pc = "ret"]
    /\ UNCHANGED <<inval, pub, uwOthers>>

\* the caller's request is cancelled (the client is gone) while DoWithOpts runs
CtxCancel(c) ==
    /\ uw[c].pc \in {"body", "commit", "rtx", "hooks"}
    /\ ~uw[c].ctxDone
    /\ uw' = [uw EXCEPT ![c].ctxDone = TRUE, ![c].cancelAt = IF uw[c].committed THEN "after" ELSE "before"]
    /\ UNCHANGED <<inval, pub, uwOthers>>

-----------------------------------------------------------------------------
(* Subscriber loop: EventsPubSub.Subscribe *)

\* the payloads published on the channel: json, the text is JSON; typeOK, its
\* fields have the types of eventChangedMsg; event_id, the number under
\* "event_id" (0 also stands for a text without that field)
Payloads ==
    {[json |-> FALSE, typeOK |-> FALSE, event_id |-> 0],
     [json |-> TRUE, typeOK |-> FALSE, event_id |-> 1],
     [json |-> TRUE, typeOK |-> TRUE, event_id |-> 0],
     [json |-> TRUE, typeOK |-> TRUE, event_id |-> 1],
     [json |-> TRUE, typeOK |-> TRUE, event_id |-> 2]}

\* json.Unmarshal([]byte(m.Payload), &ev): a text that is not JSON leaves ev
\* zero; a field of the wrong type is reported after the others were stored
Unmarshal(p) ==
    [err |-> ~(p.json /\ p.typeOK),
     EventID |-> IF p.json THEN p.event_id ELSE 0]

\* variant: err == nil
Dispatches_Decoded(ev) == ~ev.err

\* err == nil && ev.EventID != 0
Dispatches(ev) == ~ev.err /\ ev.EventID # 0

\* ch: the messages buffered in sub.Channel; recv: the messages the loop has
\* taken from ch; dispatched: the ids handler was called with; done: ctx is
\* cancelled; closed: the channel is closed; sent: messages delivered so far
IdleSub ==
    [pc |-> "select", ch |-> <<>>, recv |-> <<>>, dispatched |-> <<>>, done |-> FALSE,
     closed |-> FALSE, sent |-> 0]

subOthers ==
    <<now, storeVars, idVars, req, sweep, published, cache, invalidated, rd, idemVars,
      rlVars, sfVars, uowVars, cancelled, cl>>

\* Redis delivers a published message into the channel's buffer
SubDeliver ==
    /\ sub.pc = "select"
    /\ ~sub.closed
    /\ sub.sent < MaxMsgs
    /\ \E p \in Payloads :
          sub' = [sub EXCEPT !.ch = Append(@, p), !.sent = @ + 1]
    /\ UNCHANGED subOthers

\* case m, ok := <-ch with ok: the message is decoded and handler is called
\* or not; select takes this case whenever a message is buffered, whether or
\* not ctx.Done() is ready as well
SubRecv ==
    /\ sub.pc = "select"
    /\ sub.ch # <<>>
    /\ LET m == Head(sub.ch)
           ev == Unmarshal(m)
       IN  sub' = [sub EXCEPT !.ch = Tail(@),
                              !.recv = Append(@, m),
                              !.dispatched = IF Dispatches(ev)
                                             THEN Append(@, ev.EventID)
                                             ELSE @]
    /\ UNCHANGED subOthers

\* case <-ctx.Done(): return ctx.Err() (sub.Close is deferred)
SubDone ==
    /\ sub.pc = "select"
    /\ sub.done
    /\ sub' = [sub EXCEPT !.pc = "returned", !.closed = TRUE]
    /\ UNCHANGED subOthers

\* case m, ok := <-ch with !ok: the channel is closed and drained, return nil
SubClosed ==
    /\ sub.pc = "select"
    /\ sub.closed
    /\ sub.ch = <<>>
    /\ sub' = [sub EXCEPT !.pc = "returned"]
    /\ UNCHANGED subOthers

\* the scope around Subscribe is cancelled
SubCancel ==
    /\ sub.pc = "select"
    /\ ~sub.done
    /\ sub' = [sub EXCEPT !.done = TRUE]
    /\ UNCHANGED subOthers

\* the subscription is closed from outside the loop
SubClose ==
    /\ sub.pc = "select"
    /\ ~sub.closed
    /\ sub' = [sub EXCEPT !.closed = TRUE]
    /\ UNCHANGED subOthers

-----------------------------------------------------------------------------
(* Hold TTL: reservation.New and Service.clampTTL for any Config *)

\* the durations a Config may carry, seconds
CfgDurations == {-1, 0, 10, 15, 60, 300, 600}

\* the ttl a request may ask for, seconds
ReqTTLs == {-5, 0, 10, 15, 100, 300, 400, 700}

\* the instants at which a hold may be created
CreateInstants == {0, 20}

\* reservation.New: MinHoldTTL <= 0 becomes 15 s; MaxHoldTTL <= 0 or below
\* MinHoldTTL becomes 5 min
New(cfg) ==
    LET min == IF cfg.MinHoldTTL <= 0 THEN 15 ELSE cfg.MinHoldTTL
        max == IF cfg.MaxHoldTTL <= 0 \/ cfg.MaxHoldTTL < min THEN 300 ELSE cfg.MaxHoldTTL
    IN  [MinHoldTTL |-> min, MaxHoldTTL |-> max]

\* Service.clampTTL over the service's cfg
clampTTLCfg(cfg, ttl) ==
    IF ttl < cfg.MinHoldTTL THEN cfg.MinHoldTTL
    ELSE IF ttl > cfg.MaxHoldTTL THEN cfg.MaxHoldTTL
    ELSE ttl

\* cfg: the Config of the service; ttl: the ttl requested; used: the ttl
\* handed to HoldSeats; created, expires: time.Now() in holdSeatsCore and the
\* expires_at it writes
IdleClamp ==
    [pc |-> "new", cfg |-> [MinHoldTTL |-> 0, MaxHoldTTL |-> 0], ttl |-> 0, used |-> 0,
     created |-> 0, expires |-> 0]

clOthers ==
    <<now, storeVars, idVars, req, sweep, published, cache, invalidated, rd, idemVars,
      rlVars, sfVars, uowVars, cancelled, sub>>

\* the service is constructed with some Config
ClampNew ==
    /\ cl.pc = "new"
    /\ \E min \in CfgDurations, max \in CfgDurations :
          cl' = [cl EXCEPT !.pc = "ready",
                           !.cfg = New([MinHoldTTL |-> min, MaxHoldTTL |-> max])]
    /\ UNCHANGED clOthers

\* CreateHold: ttl = s.clampTTL(ttl); holdSeatsCore: expires := time.Now().Add(ttl)
ClampHold ==
    /\ cl.pc = "ready"
    /\ \E ttl \in ReqTTLs, t \in CreateInstants :
          LET used == clampTTLCfg(cl.cfg, ttl)
          IN  cl' = [cl EXCEPT !.pc = "held", !.ttl = ttl, !.used = used,
                               !.created = t, !.expires = t + used]
    /\ UNCHANGED clOthers

-----------------------------------------------------------------------------
vars == <<now, event_seats, holds, orders, tickets, nextHoldID, nextOrderID,
          nextTicketID, req, sweep, published, cache, invalidated, rd, idem, hreq, responses,
          clockMs, zset, zexp, rl, nextMember, rlLog, sfc, sfcall, uw, inval, pub,
          cancelled, sub, cl>>

Init ==
    /\ now = 0
    /\ event_seats = [k \in EventSeatKeys |-> AvailableRow]
    /\ holds = {}
    /\ orders = {}
    /\ tickets = {}
    /\ nextHoldID = 1
    /\ nextOrderID = 1
    /\ nextTicketID = 1
    /\ req = [c \in Clients |-> IdleReq]
    /\ sweep = IdleSweep
    /\ published = {}
    /\ cache = [e \in EventIDs |-> {}]
    /\ invalidated = [e \in EventIDs |-> FALSE]
    /\ rd = IdleRead
    /\ idem = NoKey
    /\ hreq = [c \in Clients |-> IdleHandler]
    /\ responses = <<>>
    /\ clockMs = 0
    /\ zset = {}
    /\ zexp = 0
    /\ rl = [c \in Clients |-> IdleAllow]
    /\ nextMember = 1
    /\ rlLog = {}
    /\ sfc = [c \in Callers |-> IdleCaller]
    /\ sfcall = NULL
    /\ uw = [c \in Clients |-> IdleDo]
    /\ inval = {}
    /\ pub = {}
    /\ cancelled = [c \in Clients |-> FALSE]
    /\ sub = IdleSub
    /\ cl = IdleClamp

Next ==
    \/ \E c \in Clients : OpenHold(c)
    \/ \E c \in Clients : OpenConfirm(c)
    \/ \E c \in Clients : OpenCancel(c)
    \/ \E c \in Clients : Finish(c)
    \/ \E c \in Clients : AfterCommit(c)
    \/ \E c \in Clients : Return(c)
    \/ ExpireUpdate
    \/ ExpireDelete
    \/ Tick

Spec == Init /\ [][Next]_vars

\* time advances, expire() is invoked again and again, and every response is
\* written
Fairness ==
    /\ SF_vars(Tick)
    /\ SF_vars(ExpireUpdate)
    /\ SF_vars(ExpireDelete)
    /\ \A c \in Clients : WF_vars(Return(c))

SpecLive == Init /\ [][Next]_vars /\ Fairness

\* the mutations of one event with read-through loads of its availability
NextCache ==
    \/ \E c \in Clients : OpenHold(c)
    \/ \E c \in Clients : OpenConfirm(c)
    \/ \E c \in Clients : OpenCancel(c)
    \/ \E c \in Clients : Finish(c)
    \/ \E c \in Clients : AfterCommit(c)
    \/ \E c \in Clients : Return(c)
    \/ CacheGet
    \/ FlightGet
    \/ Load
    \/ CacheSet

SpecCache == Init /\ [][NextCache]_vars

\* every mutation of one event, the sweep included, with read-through loads of
\* its availability and the expiry of cache entries
NextCacheLive ==
    \/ Next
    \/ CacheGet
    \/ FlightGet
    \/ Load
    \/ CacheSet
    \/ \E e \in EventIDs : CacheExpire(e)

\* cache entries expire at their TTL, and a read-through that has loaded goes
\* on to its SetJSON and returns
FairnessCache ==
    /\ \A e \in EventIDs : WF_vars(CacheExpire(e))
    /\ WF_vars(CacheSet)

SpecCacheLive == Init /\ [][NextCacheLive]_vars /\ FairnessCache

\* holds of one event that expire and are swept, with read-through loads of
\* its availability
NextSweep ==
    \/ \E c \in Clients : OpenHold(c)
    \/ \E c \in Clients : Finish(c)
    \/ \E c \in Clients : AfterCommit(c)
    \/ \E c \in Clients : Return(c)
    \/ ExpireUpdate
    \/ ExpireDelete
    \/ Tick
    \/ CacheGet
    \/ FlightGet
    \/ Load
    \/ CacheSet

SpecSweep == Init /\ [][NextSweep]_vars

\* holds of one event committing while several goroutines read its
\* availability through the cache
NextSF ==
    \/ \E c \in Callers : SfGet(c)
    \/ \E c \in Callers : SfDo(c)
    \/ \E c \in Callers : SfFnGet(c)
    \/ \E c \in Callers : SfLoad(c)
    \/ \E c \in Callers : SfSet(c)
    \/ \E c \in Clients : OpenHold(c)
    \/ \E c \in Clients : Finish(c)
    \/ \E c \in Clients : AfterCommit(c)
    \/ \E c \in Clients : Return(c)

SpecSF == Init /\ [][NextSF]_vars

\* units of work whose bodies register hooks, with the callers' requests
\* cancelled at any point
NextUoW ==
    \/ \E c \in Clients : DoWithOpts(c)
    \/ \E c \in Clients : After(c)
    \/ \E c \in Clients : BodyReturn(c)
    \/ \E c \in Clients : TxCommit(c)
    \/ \E c \in Clients : RunTxReturn(c)
    \/ \E c \in Clients : RunHook(c)
    \/ \E c \in Clients : DoReturn(c)
    \/ \E c \in Clients : CtxCancel(c)

SpecUoW == Init /\ [][NextUoW]_vars

\* holds, confirms and cancels of one event whose clients may go away once
\* the transaction is committed
NextHook ==
    \/ \E c \in Clients : OpenHold(c)
    \/ \E c \in Clients : OpenConfirm(c)
    \/ \E c \in Clients : OpenCancel(c)
    \/ \E c \in Clients : Finish(c)
    \/ \E c \in Clients : AfterCommit(c)
    \/ \E c \in Clients : AfterCommitCut(c)
    \/ \E c \in Clients : RequestCancel(c)
    \/ \E c \in Clients : Return(c)

SpecHook == Init /\ [][NextHook]_vars

\* one Subscribe call: messages arrive, the scope is cancelled or the
\* subscription closed at any moment
NextSub ==
    \/ SubDeliver
    \/ SubRecv
    \/ SubDone
    \/ SubClosed
    \/ SubCancel
    \/ SubClose

\* select takes a ready case: ctx.Done(), once ready, is not passed over for
\* ever
FairnessSub == WF_vars(SubDone)

SpecSub == Init /\ [][NextSub]_vars /\ FairnessSub

\* a service built from any Config clamps any requested ttl
NextClamp ==
    \/ ClampNew
    \/ ClampHold

SpecClamp == Init /\ [][NextClamp]_vars

\* hold requests with and without a repeated seat id, and cancels
NextDup ==
    \/ \E c \in Clients : OpenHoldDup(c)
    \/ \E c \in Clients : OpenHold(c)
    \/ \E c \in Clients : OpenCancel(c)
    \/ \E c \in Clients : Finish(c)
    \/ \E c \in Clients : AfterCommit(c)
    \/ \E c \in Clients : Return(c)

SpecDup == Init /\ [][NextDup]_vars

\* requests carrying one idempotency key on one event
NextIdem ==
    \/ \E c \in Clients : HandlerGet(c)
    \/ \E c \in Clients : HandlerLock(c)
    \/ \E c \in Clients : HandlerReget(c)
    \/ \E c \in Clients : HandlerCreate(c)
    \/ \E c \in Clients : HandlerRelease(c)
    \/ \E c \in Clients : HandlerSave(c)
    \/ TickLock

SpecIdem == Init /\ [][NextIdem]_vars

\* Allow calls on one limiter key
NextRL ==
    \/ \E c \in Clients : AllowStart(c)
    \/ \E c \in Clients : AllowScript(c)
    \/ TickMs

SpecRL == Init /\ [][NextRL]_vars

-----------------------------------------------------------------------------
(* Properties of the reservation core, checked under Spec *)

\* the step in which the transaction of client c, serving operation op, ends
\* with its own result (a serialization failure is the result of another commit)
EndsOwnTx(c, op) ==
    /\ req[c].pc = "snap"
    /\ req[c].op = op
    /\ req'[c].pc \in {"hook", "done"}
    /\ req'[c].err # ErrSerialization

\* the tickets issued for the seat of row k
TicketsOf(ts, k) == {t \in ts : t.event_id = k[1] /\ t.seat_id = k[2]}

\* C1 (no double-sell): in every reachable state, for every event and seat, at
\* most one ticket exists with that (event id, seat id).
C1_NoDoubleSell ==
    \A k \in EventSeatKeys : Cardinality(TicketsOf(tickets, k)) <= 1

\* two holds were confirmed: tickets of two orders exist
C1_Witness ==
    \E t1, t2 \in tickets : t1.order_id # t2.order_id

\* C2 (hold atomicity): a hold of k seats that succeeds leaves exactly those k
\* rows held under one new hold id, whose Hold row exists; a hold that returns
\* seats-unavailable leaves seats and holds as they were.
C2_HoldAtomicity ==
    [][\A c \in Clients : EndsOwnTx(c, "hold") =>
          /\ req'[c].err = OK =>
                LET h == req'[c].out
                    mine == RowsOfHold(event_seats', h)
                IN  /\ RowsOfHold(event_seats, h) = {}
                    /\ \A x \in holds : x.id # h
                    /\ Cardinality(mine) = Len(req[c].seatIDs)
                    /\ mine = {k \in EventSeatKeys : k[1] = req[c].eventID
                                                     /\ k[2] \in Range(req[c].seatIDs)}
                    /\ \A k \in mine : event_seats'[k] = HeldRow(h, req[c].expires)
                    /\ Cardinality({x \in holds' : x.id = h}) = 1
          /\ req'[c].err = ErrSeatsUnavailable => UNCHANGED storeVars]_vars

\* a hold of two seats was refused while one of its seats was available, and
\* the available seat is still available
C2_Witness ==
    \E c \in Clients :
        /\ req[c].pc = "done" /\ req[c].op = "hold"
        /\ req[c].err = ErrSeatsUnavailable
        /\ req[c].seatIDs = <<10, 11>>
        /\ event_seats[<<1, 10>>].status = "held"
        /\ event_seats[<<1, 11>>] = AvailableRow

\* C3 (confirm totality): a confirm of hold h that succeeds leaves every row
\* that had hold_id = h sold with hold_id and hold_expires_at NULL, exactly one
\* ticket per such seat, one new order owning those tickets, and no Hold row h.
C3_ConfirmTotality ==
    [][\A c \in Clients : (EndsOwnTx(c, "confirm") /\ req'[c].err = OK) =>
          LET h == req[c].holdID
              S == RowsOfHold(event_seats, h)
              newT == tickets' \ tickets
              newO == orders' \ orders
          IN  /\ \A k \in S : /\ event_seats'[k] = SoldRow
                               /\ Cardinality(TicketsOf(tickets', k)) = 1
                               /\ Cardinality(TicketsOf(newT, k)) = 1
              /\ \A t \in newT : <<t.event_id, t.seat_id>> \in S /\ t.order_id = req'[c].out
              /\ Cardinality(newO) = 1
              /\ \A o \in newO : o.id = req'[c].out
              /\ tickets \subseteq tickets' /\ orders \subseteq orders'
              /\ \A x \in holds' : x.id # h]_vars

\* a hold of two seats was confirmed: both rows sold, two tickets of its order
C3_Witness ==
    \E c \in Clients :
        /\ req[c].pc = "hook" /\ req[c].op = "confirm"
        /\ Cardinality({t \in tickets : t.order_id = req[c].out}) = 2
        /\ \A k \in EventSeatKeys : event_seats[k] = SoldRow

\* the rows of the seats a hold request names
Requested(r) == {k \in EventSeatKeys : k[1] = r.eventID /\ k[2] \in Range(r.seatIDs)}

\* C4 (contended hold): of two concurrent holds of overlapping seats, all
\* available, one returns success and the other returns seats-unavailable: when
\* the first commits, the other is still running or has been refused with
\* seats-unavailable.
C4_ContendedHold ==
    [][\A c, d \in Clients :
          ( /\ c # d
            /\ req[c].pc = "snap" /\ req[c].op = "hold"
            /\ req[d].pc = "snap" /\ req[d].op = "hold"
            /\ Requested(req[c]) \cap Requested(req[d]) # {}
            /\ \A k \in Requested(req[c]) \cup Requested(req[d]) :
                   event_seats[k] = AvailableRow
            /\ req'[c].pc = "hook" )
          => \/ req'[d].pc = "snap"
             \/ req'[d].pc = "done" /\ req'[d].err = ErrSeatsUnavailable]_vars

\* C5 (transaction all-or-nothing): a hold, confirm or cancel that returns an
\* error from a step of its transaction leaves event_seats, holds, orders and
\* tickets as they were.
C5_AllOrNothing ==
    [][\A c \in Clients :
          ( /\ req[c].pc \in {"idle", "snap"}
            /\ req'[c].pc = "done"
            /\ req'[c].err \notin {OK, ErrSerialization} )
          => UNCHANGED storeVars]_vars

\* a confirm failed after its seats were marked sold and its order and tickets
\* were inserted; the seats are held again and there is no order and no ticket
C5_Witness ==
    \E c \in Clients :
        /\ req[c].pc = "done" /\ req[c].op = "confirm" /\ req[c].err = ErrCommit
        /\ \E k \in EventSeatKeys : event_seats[k].status = "held"
        /\ orders = {} /\ tickets = {}

\* C6 (expiry reclaim): when the sweep has evaluated its UPDATE at the instant
\* now, no row is held with hold_expires_at <= now, and the count expire()
\* returns is the number of rows that were held and expired when it ran.
C6_ExpiryReclaim ==
    [][(sweep.pc = "idle" /\ sweep'.pc = "delete") =>
          /\ \A k \in EventSeatKeys :
                ~(event_seats'[k].status = "held" /\ event_seats'[k].hold_expires_at <= now)
          /\ sweep'.released =
                Cardinality({k \in EventSeatKeys :
                                /\ event_seats[k].status = "held"
                                /\ event_seats[k].hold_expires_at <= now})
          /\ \A k \in EventSeatKeys :
                event_seats'[k] # event_seats[k] => event_seats'[k] = AvailableRow]_vars

\* the sweep has released two expired rows
C6_Witness ==
    /\ sweep.pc = "delete"
    /\ sweep.released = 2
    /\ \A k \in EventSeatKeys : event_seats[k] = AvailableRow

\* C7 (expired seats re-holdable): a hold whose seats are each available, or
\* held with hold_expires_at <= now() of its transaction, does not fail with
\* seats-unavailable, whether or not expire() has run: it succeeds (unless a
\* statement fails in the engine).
C7_ExpiredReholdable ==
    [][\A c \in Clients :
          ( /\ EndsOwnTx(c, "hold")
            /\ NoDup(req[c].seatIDs)
            /\ Cardinality(Requested(req[c])) = Len(req[c].seatIDs)
            /\ \A k \in Requested(req[c]) :
                   \/ event_seats[k].status = "available"
                   \/ /\ event_seats[k].status = "held"
                      /\ event_seats[k].hold_expires_at <= req[c].txNow )
          => req'[c].err \in {OK, ErrDB}]_vars

\* a hold took both seats while the Hold row of an expired hold is still there
\* and no sweep is under way: its seats were not released by expire()
C7_Witness ==
    \E c \in Clients :
        /\ req[c].pc = "hook" /\ req[c].op = "hold"
        /\ sweep.pc = "idle"
        /\ \A k \in EventSeatKeys : event_seats[k].hold_id = req[c].out
        /\ \E x \in holds : x.id # req[c].out /\ x.expires_at <= now

\* the step in which the transaction of client c, serving operation op, commits
Commits(c, op) == EndsOwnTx(c, op) /\ req'[c].pc = "hook"

\* C12 (seat state machine): the status of a row changes only from available to
\* held (by a committing hold that names the seat), from held to sold (by the
\* confirm of the row's own hold id) and from held to available (by the cancel
\* of the row's own hold id, or by the sweep or a hold's reconciliation when
\* hold_expires_at <= now); a sold row never changes again.
C12_SeatStateMachine ==
    [][\A k \in EventSeatKeys :
          LET a == event_seats[k]
              b == event_seats'[k]
          IN  /\ a.status = "sold" => b = a
              /\ a.status # b.status =>
                    \/ /\ a.status = "available" /\ b.status = "held"
                       /\ \E c \in Clients :
                             /\ Commits(c, "hold")
                             /\ req[c].eventID = k[1]
                             /\ k[2] \in Range(req[c].seatIDs)
                             /\ b.hold_id = req'[c].out
                    \/ /\ a.status = "held" /\ b.status = "sold"
                       /\ \E c \in Clients :
                             Commits(c, "confirm") /\ req[c].holdID = a.hold_id
                    \/ /\ a.status = "held" /\ b.status = "available"
                       /\ \/ \E c \in Clients :
                                Commits(c, "cancel") /\ req[c].holdID = a.hold_id
                          \/ /\ a.hold_expires_at <= now
                             /\ \/ sweep.pc = "idle" /\ sweep'.pc = "delete"
                                \/ \E c \in Clients :
                                      Commits(c, "hold") /\ req[c].eventID = k[1]
      ]_vars

\* every transition has been taken: a seat is sold, both holds were made, and
\* the seat of the other hold is available again
C12_Witness ==
    /\ nextHoldID = 3
    /\ holds = {}
    /\ \E k1, k2 \in EventSeatKeys :
          event_seats[k1].status = "sold" /\ event_seats[k2].status = "available"

\* row k names a Hold row that exists and whose expires_at is in the future
HasLiveHold(k) ==
    /\ event_seats[k].hold_id # NULL
    /\ \E h \in holds : h.id = event_seats[k].hold_id /\ h.expires_at > now

\* C13 (status coherence, held), as stated: in every reachable state a row is
\* stored held if and only if its hold id is set and a Hold row with that id
\* exists whose expires_at is strictly in the future.
C13_HeldIffLiveHold ==
    \A k \in EventSeatKeys : event_seats[k].status = "held" <=> HasLiveHold(k)

\* C13, amended: in every reachable state a row is stored held with
\* hold_expires_at strictly in the future if and only if its hold id is set and
\* a Hold row with that id exists whose expires_at is strictly in the future.
C13_UnexpiredHeldIffLiveHold ==
    \A k \in EventSeatKeys :
        (event_seats[k].status = "held" /\ event_seats[k].hold_expires_at > now)
            <=> HasLiveHold(k)

\* one row is held under a live hold while another is still stored held after
\* its hold_expires_at has passed
C13_Witness ==
    \E k1, k2 \in EventSeatKeys :
        /\ HasLiveHold(k1)
        /\ event_seats[k2].status = "held"
        /\ event_seats[k2].hold_expires_at <= now

\* C14 (status coherence, sold): in every reachable state a row (event, seat)
\* has status sold if and only if a ticket exists for (event, seat).
C14_SoldIffTicket ==
    \A k \in EventSeatKeys :
        event_seats[k].status = "sold" <=> TicketsOf(tickets, k) # {}

\* one seat is sold and has its ticket while the other is held and has none
C14_Witness ==
    \E k1, k2 \in EventSeatKeys :
        /\ event_seats[k1].status = "sold" /\ TicketsOf(tickets, k1) # {}
        /\ event_seats[k2].status = "held" /\ TicketsOf(tickets, k2) = {}

\* C15 (hold fields): in every reachable state, for every row, hold_id is
\* non-null if and only if status = held, and hold_expires_at is non-null if
\* and only if status = held.
C15_HoldFieldsIffHeld ==
    \A k \in EventSeatKeys :
        /\ event_seats[k].hold_id # NULL <=> event_seats[k].status = "held"
        /\ event_seats[k].hold_expires_at # NULL <=> event_seats[k].status = "held"

\* the three fields have been set by a hold and cleared again, by the sweep
\* for one row and by a confirm for the other
C15_Witness ==
    /\ sweep.released > 0
    /\ \E k1, k2 \in EventSeatKeys :
          /\ event_seats[k1] = AvailableRow
          /\ event_seats[k2].status = "sold" /\ event_seats[k2].hold_id = NULL

\* what confirm(h) answers when it runs alone and to its end in the current
\* state, its transaction beginning now, with no engine failure
ConfirmAnswer(h) ==
    IF EventIDByHold(holds, h) = NULL
    THEN ErrHoldNotFound
    ELSE ConfirmSvcErr(confirmHoldCore(CurDB, h, CHOOSE t \in TotalCentsVals : TRUE,
                                       now, nextOrderID, nextTicketID, 0).err)

C20_CancelFrame ==
    [][\A c \in Clients :
          Commits(c, "cancel") =>
              LET h == req[c].holdID
              IN  /\ \A k \in EventSeatKeys :
                        event_seats'[k] = IF event_seats[k].hold_id = h
                                          THEN AvailableRow
                                          ELSE event_seats[k]
                  /\ holds' = {x \in holds : x.id # h}
                  /\ holds' # holds
                  /\ UNCHANGED <<orders, tickets>>
      ]_vars

\* cancel(1) is in its transaction, about to commit, after hold 1 has expired
\* and hold 2 has re-held its seats: both rows are held under hold 2
C20_Witness ==
    /\ \E c \in Clients :
          req[c].pc = "snap" /\ req[c].op = "cancel" /\ req[c].holdID = 1
    /\ \E x \in holds : x.id = 1 /\ x.expires_at <= now
    /\ \A k \in EventSeatKeys : event_seats[k].hold_id = 2

\* C21 (nothing to confirm): a confirm that finds a live Hold row while no row
\* of event_seats carries the hold id fails, creates no order, and its error
\* reaches the caller as hold-expired, which respondErr writes as 409.
C21_NothingToConfirm ==
    [][\A c \in Clients :
          ( /\ EndsOwnTx(c, "confirm")
            /\ LiveHold(holds, req[c].holdID, req[c].txNow) # {}
            /\ RowsOfHold(event_seats, req[c].holdID) = {}
            /\ req'[c].err # ErrDB )
          => /\ req'[c].pc = "done"
             /\ UNCHANGED storeVars
             /\ req'[c].err = ErrHoldExpired
             /\ respondErr(req'[c].err) = 409
      ]_vars

\* C22 (error mapping is total): the status respondErr writes for the error of
\* a finished request is 409 for seats-unavailable, hold-expired and conflict,
\* 404 for hold-not-found, and 500 for every error of no known kind.
C22_ErrorMappingTotal ==
    \A c \in Clients :
        (req[c].pc = "done" /\ req[c].err # OK) =>
            LET status == respondErr(req[c].err)
            IN  /\ req[c].err \in {ErrSeatsUnavailable, ErrHoldExpired, ErrHoldConflict}
                      => status = 409
                /\ req[c].err = ErrHoldNotFound => status = 404
                /\ req[c].err \notin {ErrSeatsUnavailable, ErrHoldExpired, ErrHoldConflict,
                                      ErrHoldNotFound}
                      => status = 500


\* the rows that carry hold id h
Under(es, h) == {k \in EventSeatKeys : es[k].hold_id = h}

\* C35 (confirm is never partial): the set of rows that carry hold id h only
\* ever changes from empty to the full set its hold request named (when the
\* hold commits) and from that set to empty (confirm, cancel, sweep, the
\* reconciliation of another hold); so a confirm of h that succeeds, whatever
\* was interleaved, sells exactly the seats the hold claimed and no seat that
\* was released or re-held in between.
C35_ConfirmNeverPartial ==
    [][\A h \in 1..MaxHolds :
          LET a == Under(event_seats, h)
              b == Under(event_seats', h)
          IN  /\ a # b
                    => \/ b = {}
                       \/ /\ a = {} /\ h = nextHoldID
                          /\ \E c \in Clients :
                                /\ Commits(c, "hold") /\ req'[c].out = h
                                /\ b = Requested(req[c])
              /\ \A c \in Clients :
                    (Commits(c, "confirm") /\ req[c].holdID = h)
                        => /\ a # {}
                           /\ {<<t.event_id, t.seat_id>> : t \in tickets' \ tickets} = a
                           /\ \A k \in a : event_seats'[k].status = "sold"
      ]_vars

\* a hold of two seats is confirmed, both seats sold under one order, after
\* another hold had been made and the clock had passed a hold's expiry
C35_Witness ==
    /\ now > 0 /\ nextHoldID = 3
    /\ Cardinality(tickets) = 2
    /\ \E c \in Clients : req[c].pc = "hook" /\ req[c].op = "confirm"


\* the ids of the Hold rows
HoldIDs(hs) == {x.id : x \in hs}

\* the step in which a confirm or a cancel of hold h by client c succeeds
Consumes(c, h) ==
    /\ Commits(c, "confirm") \/ Commits(c, "cancel")
    /\ req[c].holdID = h

\* C36 (a hold is consumed at most once): a confirm or cancel of h succeeds only
\* on a Hold row that exists, removes it and fails every other open call on h
\* in the same step; a Hold row that is gone never returns and no row takes its
\* id again. So of any sequential or concurrent mix of confirm(h) and
\* cancel(h) at most one succeeds, a hold yields at most one order, and the
\* seats a cancel released get no ticket from h.
C36_ConsumedAtMostOnce ==
    [][\A h \in 1..MaxHolds :
          /\ \A c \in Clients :
                Consumes(c, h)
                    => /\ h \in HoldIDs(holds)
                       /\ h \notin HoldIDs(holds')
                       /\ Under(event_seats', h) = {}
                       /\ Cardinality(orders' \ orders)
                              = IF req[c].op = "confirm" THEN 1 ELSE 0
                       /\ req[c].op = "cancel" => tickets' = tickets
                       /\ \A d \in Clients \ {c} :
                             (req[d].pc = "snap" /\ req[d].holdID = h)
                                 => /\ req'[d].pc = "done"
                                    /\ req'[d].err = ErrSerialization
          /\ (h < nextHoldID /\ h \notin HoldIDs(holds)) => h \notin HoldIDs(holds')
          /\ (h < nextHoldID /\ Under(event_seats, h) = {}) => Under(event_seats', h) = {}
      ]_vars

\* a confirm and a cancel of the only hold ran concurrently: the confirm
\* committed and the cancel got the serialization failure
C36_Witness ==
    /\ nextHoldID = 2
    /\ \E c, d \in Clients :
          /\ req[c].pc = "hook" /\ req[c].op = "confirm"
          /\ req[d].pc = "done" /\ req[d].op = "cancel" /\ req[d].err = ErrSerialization
    /\ Cardinality(orders) = 1


\* C37 (no dangling hold reference): in every reachable state, the states
\* between the two statements of a sweep included, every held row carries the
\* id of a Hold row of the same event whose expires_at is the row's
\* hold_expires_at.
C37_NoDanglingHold ==
    \A k \in EventSeatKeys :
        event_seats[k].status = "held"
            => \E h \in holds :
                  /\ h.id = event_seats[k].hold_id
                  /\ h.event_id = k[1]
                  /\ h.expires_at = event_seats[k].hold_expires_at

-----------------------------------------------------------------------------
(* Liveness of the reservation core, checked under SpecLive *)

\* C16 (holds never leak): with time advancing and expire() invoked again and
\* again, every row held under a hold whose expiry is an instant the clock
\* reaches is eventually no longer held under that hold (it is sold or
\* available again), and the Hold row of every such hold is eventually deleted.
C16_HoldsNeverLeak ==
    \A h \in 1..MaxHolds, t \in Instants :
        /\ \A k \in EventSeatKeys :
              (event_seats[k].hold_id = h /\ event_seats[k].hold_expires_at = t)
                  ~> (event_seats[k].status \in {"sold", "available"}
                         \/ event_seats[k].hold_id # h)
        /\ (\E x \in holds : x.id = h /\ x.expires_at = t)
              ~> ~(\E x \in holds : x.id = h)

\* the sweep has released the rows of an expired hold and is about to delete
\* its Hold row
C16_Witness ==
    /\ sweep.pc = "delete"
    /\ sweep.released > 0
    /\ \E x \in holds : x.expires_at <= now /\ RowsOfHold(event_seats, x.id) = {}

-----------------------------------------------------------------------------
(* Properties of the cache, checked under SpecCache *)

\* C10 (cache reflects commits): once the after-commit hook of a successful
\* hold, confirm or cancel on event e has completed (and no later commit on e
\* still awaits its hook), the cached availability of e is absent or equal to
\* the committed rows, whatever read-through loads run concurrently.
C10_CacheReflectsCommits ==
    \A e \in EventIDs :
        ( /\ e \in published
          /\ \A c \in Clients : ~(req[c].pc = "hook" /\ req[c].eventID = e) )
        => cache[e] \subseteq {CountsByStatus(event_seats, e)}

\* C11 (invalidation completeness): once InvalidateEvent(e) has completed, the
\* next read-through of e runs the loader: until a loader has run again no
\* value is cached under e, so no GetJSON of a read-through started after the
\* invalidation can hit, also when a read-through was in flight at the DEL.
C11_NextReadRunsLoader ==
    \A e \in EventIDs : invalidated[e] => cache[e] = {}

\* every read-through of e returns the committed counts: the cached value, if
\* any, and the value a read-through is about to return
Fresh(e) ==
    /\ cache[e] \subseteq {CountsByStatus(event_seats, e)}
    /\ (rd.pc = "set" /\ rd.eventID = e) => rd.val = {CountsByStatus(event_seats, e)}

\* C17 (cached reads eventually reflect every mutation): mutations of event e
\* (hold, confirm, cancel, the sweep) being finitely many and cache entries
\* expiring at their TTL, from some point on every read-through of e's
\* availability returns the counts of the committed rows.
C17_EventuallyFresh ==
    \A e \in EventIDs : <>[]Fresh(e)

\* the sweep has released rows, without invalidation, and a value loaded after
\* it is cached
C17_Witness ==
    /\ sweep.pc = "delete"
    /\ sweep.released > 0
    /\ rd.pc = "idle"
    /\ \E e \in EventIDs : cache[e] = {CountsByStatus(event_seats, e)}


-----------------------------------------------------------------------------
(* Properties of the sweep beside the cache, checked under SpecSweep *)

\* C27 (expire has no cache or pub/sub effect): a statement of the expire()
\* sweep, whatever number of rows it releases, publishes nothing and leaves
\* every cache entry as it is; of the store only event_seats and holds change.
C27_ExpireFrame ==
    [][sweep' # sweep
          => /\ UNCHANGED <<published, cache, invalidated>>
             /\ UNCHANGED <<orders, tickets, idVars, now>>
      ]_vars

\* the sweep has released two rows while the availability of the event is
\* cached and a message of an earlier commit is out
C27_Witness ==
    /\ sweep.pc = "delete" /\ sweep.released = 2
    /\ \E e \in EventIDs : cache[e] # {} /\ e \in published


-----------------------------------------------------------------------------
(* Properties of the single flight, checked under SpecSF *)

\* the callers that are inside the function handed to sf.Do
InFn == {c \in Callers : sfc[c].pc \in {"fn", "load", "set"}}

\* C28 (single flight): of the callers that missed the cache for the key, at
\* any time at most one is inside the function that runs the loader, and it is
\* the call in flight; the others wait until that call ends and then return
\* what it returned, the loaded value or the loader's error; a loader error
\* leaves the key absent from the cache.
C28_SingleFlight ==
    /\ [](Cardinality(InFn) <= 1 /\ \A c \in InFn : sfcall = c)
    /\ [][\A l \in Callers :
             /\ (sfc[l].pc \in {"fn", "load", "set"} /\ sfc'[l].pc = "done")
                   => /\ \A c \in Callers : sfc[c].pc = "wait" => sfc'[c] = sfc'[l]
                      /\ sfc[l].pc = "set"
                            => sfc'[l].val = sfc[l].val /\ sfc'[l].err = OK
                      /\ sfc[l].pc = "load"
                            => /\ sfc'[l].err # OK /\ sfc'[l].val = {}
                               /\ cache'[SfEvent] = {}
             /\ (sfc[l].pc = "wait" /\ sfc'[l] # sfc[l])
                   => /\ sfcall \in Callers \ {l}
                      /\ sfc[sfcall].pc \in {"fn", "load", "set"}
                      /\ sfc'[sfcall].pc = "done"
        ]_vars

\* two callers wait on the call of the third, whose loader has returned a
\* value after a hold was committed
C28_Witness ==
    /\ sfc[1].pc = "set" /\ sfc[2].pc = "wait" /\ sfc[3].pc = "wait"
    /\ \E v \in sfc[1].val : v.held > 0


-----------------------------------------------------------------------------
(* Properties of the unit of work, checked under SpecUoW *)

\* s is an initial segment of t
IsPrefix(s, t) == Len(s) <= Len(t) /\ \A i \in 1..Len(s) : s[i] = t[i]

\* C29 (after-commit hooks): at every instant the hooks called so far are an
\* initial segment of the hooks registered (each at most once, in registration
\* order), and none is called unless Commit returned nil; when DoWithOpts
\* returns nil every registered hook has been called, exactly once each; when
\* the body returned an error or Commit failed, no hook is ever called.
C29_AfterCommitHooks ==
    \A c \in Clients :
        LET d == uw[c]
        IN  /\ IsPrefix(d.ran, d.hooks)
            /\ d.ran # <<>> => d.committed /\ d.err = OK /\ d.pc \in {"hooks", "ret"}
            /\ (d.pc = "ret" /\ d.err = OK) => d.committed /\ d.ran = d.hooks
            /\ (d.pc \in {"rtx", "ret"} /\ d.err # OK) => d.ran = <<>>
            /\ d.pc \in {"idle", "body", "commit", "rtx"} => d.ran = <<>>

\* a body registered hook 2, then hook 1, the commit succeeded and DoWithOpts
\* returned after both were called; another body registered a hook and failed
C29_Witness ==
    /\ uw[1].pc = "ret" /\ uw[1].err = OK /\ uw[1].hooks = <<2, 1>> /\ uw[1].ran = <<2, 1>>
    /\ uw[2].pc = "ret" /\ uw[2].err # OK /\ uw[2].hooks # <<>> /\ uw[2].ran = <<>>

\* C30 (cancellation after commit): when the caller's request was cancelled
\* after the commit and before the hooks ran, each hook, when it is called,
\* still carries out its cache invalidation and its publish.
C30_HooksSurviveCancel ==
    [][\A c \in Clients :
          ( /\ uw[c].pc = "hooks" /\ uw[c].committed
            /\ uw[c].cancelAt = "after"
            /\ Len(uw'[c].ran) = Len(uw[c].ran) + 1 )
          => LET i == Len(uw'[c].ran)
             IN  <<c, i>> \in inval' /\ <<c, i>> \in pub'
      ]_vars


-----------------------------------------------------------------------------
(* Properties of the after-commit hook of the service, checked under SpecHook *)

\* C31 (invalidate and publish after every commit): when the hook of a hold,
\* confirm or cancel that committed on event E has been called, the cache
\* keys of E have been deleted and event_changed has been published for E;
\* an operation that fails deletes no key and publishes nothing.
C31_HookAfterCommit ==
    [][\A c \in Clients :
          /\ (req[c].pc = "hook" /\ req'[c].pc = "done")
                => /\ cache'[req[c].eventID] = {}
                   /\ invalidated'[req[c].eventID]
                   /\ req[c].eventID \in published'
          /\ (req[c].pc \in {"idle", "snap"} /\ req'[c].pc = "done")
                => UNCHANGED <<cache, invalidated, published>>
      ]_vars


-----------------------------------------------------------------------------
(* Properties of the subscriber loop, checked under SpecSub *)

\* the payload decodes and carries a non-zero event id
Dispatchable(p) == p.json /\ p.typeOK /\ p.event_id # 0

\* the event ids of the dispatchable messages of a sequence, in order
IdsOf(msgs) ==
    LET good == SelectSeq(msgs, Dispatchable)
    IN  [i \in 1..Len(good) |-> good[i].event_id]

\* each received message with a non-zero id that decodes was handed to the
\* handler once with its id, in order of receipt, and no other was
DispatchedOnce == sub.dispatched = IdsOf(sub.recv)

\* C33 (subscriber loop), as stated: every received message that decodes with
\* a non-zero id is dispatched exactly once with that id, the others are
\* skipped and the loop goes on; once the scope is cancelled no further
\* message is dispatched, and the loop returns.
C33_SubscriberLoop ==
    /\ []DispatchedOnce
    /\ [][sub.done => sub'.dispatched = sub.dispatched]_vars
    /\ (sub.done ~> sub.pc = "returned")

\* C33, amended: every received message that decodes with a non-zero id is
\* dispatched exactly once with that id, the others are skipped and the loop
\* goes on; once the scope is cancelled the loop returns, and after it has
\* returned it receives and dispatches nothing. Messages buffered in the
\* channel may still be received and dispatched between the cancellation and
\* the return.
C33_SubscriberLoopReturns ==
    /\ []DispatchedOnce
    /\ [][sub.pc = "returned" => sub' = sub]_vars
    /\ (sub.done ~> sub.pc = "returned")

\* the loop skipped a text that is not JSON and a message with id 0, then
\* dispatched id 2, and returned after the cancellation
C33_Witness ==
    /\ sub.pc = "returned" /\ sub.done
    /\ Len(sub.recv) = 3
    /\ ~sub.recv[1].json /\ sub.recv[2].event_id = 0 /\ sub.recv[2].typeOK
    /\ sub.dispatched = <<2>>


-----------------------------------------------------------------------------
(* Properties of the hold ttl, checked under SpecClamp *)

\* C34 (ttl clamp): for every Config the constructor takes and every ttl asked
\* for, MinHoldTTL <= MaxHoldTTL in the service (15 s and 5 min for a zero
\* Config), the ttl used lies between them and is the one asked for when that
\* already does, and expires-at is the creation time plus the ttl used.
C34_TTLClamp ==
    /\ New([MinHoldTTL |-> 0, MaxHoldTTL |-> 0]) = [MinHoldTTL |-> 15, MaxHoldTTL |-> 300]
    /\ cl.pc # "new" => cl.cfg.MinHoldTTL <= cl.cfg.MaxHoldTTL
    /\ cl.pc = "held"
          => /\ cl.cfg.MinHoldTTL <= cl.used /\ cl.used <= cl.cfg.MaxHoldTTL
             /\ (cl.cfg.MinHoldTTL <= cl.ttl /\ cl.ttl <= cl.cfg.MaxHoldTTL)
                   => cl.used = cl.ttl
             /\ cl.expires = cl.created + cl.used


-----------------------------------------------------------------------------
(* Properties of a hold request with a repeated seat id, checked under SpecDup *)

\* C40 (duplicate seat ids): a hold request whose list names a seat more than
\* once fails and changes nothing, whatever the state of its seats: with an
\* engine that answers every statement the error is seats unavailable, since
\* the rows updated are at most the distinct seats, fewer than the list is
\* long.
C40_DuplicateSeatIDs ==
    [][\A c \in Clients :
          (EndsOwnTx(c, "hold") /\ ~NoDup(req[c].seatIDs))
              => /\ req'[c].pc = "done"
                 /\ req'[c].err \in {ErrSeatsUnavailable, ErrDB}
                 /\ TxOutcome(c, 0).err = ErrSeatsUnavailable
                 /\ UNCHANGED <<storeVars, idVars, cache, invalidated, published>>
      ]_vars

\* a request naming seat 11 twice and seat 10 once was refused with seats
\* unavailable while every seat of the event was available
C40_Witness ==
    /\ \E c \in Clients :
          /\ req[c].pc = "done" /\ req[c].op = "hold"
          /\ req[c].seatIDs = <<11, 10, 11>>
          /\ req[c].err = ErrSeatsUnavailable
    /\ \A k \in EventSeatKeys : event_seats[k].status = "available"
    /\ nextHoldID > 1

-----------------------------------------------------------------------------
(* Properties of the idempotent create-hold, checked under SpecIdem *)

\* C8 (idempotent create-hold): over the requests carrying key K on event E,
\* every successful (201) response carries the same payload as the first one,
\* and one hold at most is created.
C8_IdempotentCreateHold ==
    LET ok == {i \in DOMAIN responses : responses[i].status = 201}
    IN  /\ \A i, j \in ok : responses[i].body = responses[j].body
        /\ nextHoldID - 1 <= 1

\* C23 (rate-limit denial): when the limiter denies a create-hold call, no
\* transaction runs and no seat, hold, cache key or message is produced, and
\* the call is answered 429 with a Retry-After header that is the limiter's
\* retry-after duration (in seconds, rounded up).
C23_RateLimitDenial ==
    [][\A c \in Clients :
          /\ (hreq[c].pc = "create" /\ hreq'[c].err = ErrRateLimited)
                => UNCHANGED <<storeVars, idVars, cache, invalidated, published>>
          /\ ( /\ hreq[c].pc = "release" /\ hreq[c].err = ErrRateLimited
               /\ hreq'[c].pc = "idle" )
                => LET r == responses'[Len(responses')]
                   IN  /\ Len(responses') = Len(responses) + 1
                       /\ r.status = 429
                       /\ r.retryAfter = (hreq[c].retry + 999) \div 1000
      ]_vars


\* a request arrives in this step: it leaves "idle", or it is answered at once
Arrives ==
    \/ \E c \in Clients : hreq[c].pc = "idle" /\ hreq'[c].pc # "idle"
    \/ hreq' = hreq /\ responses' # responses

C32_ControlFlowOrder ==
    [][\A c \in Clients :
          /\ (hreq[c].err # ErrRateLimited /\ hreq'[c].err = ErrRateLimited)
                => ~hreq[c].locked
          /\ (hreq[c].pc = "save" /\ hreq'[c].pc = "idle")
                => /\ hreq[c].locked
                   /\ hreq[c].holdID < nextHoldID
                   /\ published # {}
      ]_vars


\* C38 (lock ownership on release): the DEL of a failing request removes
\* nothing that is live under the key but the LOCK the request wrote itself:
\* never the LOCK of another request, never a stored RES.
C38_ReleaseOwnLock ==
    [][\A c \in Clients :
          (hreq[c].pc = "release" /\ hreq'[c].pc = "idle" /\ idem' # idem)
              => LET k == LiveKey(idem, now)
                 IN  \/ k.val = "none"
                     \/ k.val = "LOCK" /\ k.owner = c
      ]_vars

-----------------------------------------------------------------------------
(* Properties of the limiter, checked under SpecRL *)

\* the calls that returned allowed = true and lie, from the instant they read
\* the clock to the instant their script ran, in the window of the RLWindowMs
\* milliseconds a, a + 1, ..., a + RLWindowMs - 1
AllowedWithin(a) ==
    {r \in rlLog : r.allowed /\ a <= r.start /\ r.end < a + RLWindowMs}

NextAfterRetry(p, q) ==
    /\ ~p.allowed /\ p.retryAfter # NULL
    /\ q.retryAfter # NULL
    /\ q.start >= p.end + p.retryAfter
    /\ \A x \in rlLog \ {p, q} : x.end < p.start \/ x.start > q.end

\* C39 (retry-after is sufficient): a caller that was denied with retryAfter
\* and calls again once retryAfter has elapsed, the key being used by no call
\* meanwhile, is allowed.
C39_RetryAfterSufficient ==
    \A p, q \in rlLog : NextAfterRetry(p, q) => q.allowed

====
